---- MODULE Spec2Model ----
(***************************************************************************)
(* Jagawarung backend: the protocol (MCP) client's session handling, the   *)
(* ledger (transaction) service over its relational store, and the agent   *)
(* orchestrator that dispatches parsed intents to the ledger service.      *)
(***************************************************************************)
EXTENDS Integers, FiniteSets, Sequences, TLC

(***************************************************************************)
(* Bounds of the model                                                     *)
(***************************************************************************)
\* number of callMcp invocations explored
MaxCalls == 3
\* number of ledger requests explored when requests of every kind are mixed
MaxOps == 2
\* number of accumulating debt creations explored
MaxAccum == 3
\* number of ledger requests explored around repays
MaxRepayOps == 3
\* number of ledger requests explored around summaries
MaxSummaryOps == 3
\* number of comma-separated members of a type filter explored
MaxMembers == 2
\* callMcp invocations explored while the answers received are recorded
MaxSessionCalls == 2
\* instants explored in each day: its first millisecond, ..., its last millisecond
InstantsPerDay == 2
\* instants that may pass between two readings of the clock within one call
MaxElapsed == 1

NULL == "null"
\* the empty pending-initialization slot (promises are numbered from 1)
NoPromise == 0

Calls == 1..MaxCalls
\* session tokens the remote side hands out
Tokens == {"s1", "s2"}
\* the methods callers pass to callMcp
Methods == {"initialize", "tools/call"}

VARIABLES
  \* ---- protocol client (src/src/services/mcp.service.ts) ----
  activeSessionId,      \* module-level cached token, NULL when none
  sessionInitPromise,   \* module-level pending-initialization slot: a promise id or NoPromise
  promises,             \* promises created by ensureSession: id -> [state, value, error]
  calls,                \* one record per callMcp invocation
  initRequestsSent,     \* history: number of initialize requests sent so far
  lastResponse,         \* history kept by SpecSession: the answer the client received last
  \* ---- ledger: the transactions table and the service calls in progress ----
  transactions,         \* the rows of the transactions table
  nextId,               \* the id the store gives the next inserted row
  tasks,                \* one record per request being served (async call chain)
  opsLeft,              \* how many more requests this exploration starts
  credited              \* history: per debtor, the sum of the amounts of the
                        \* accumulating debt creations that completed

mcpVars == <<activeSessionId, sessionInitPromise, promises, calls, initRequestsSent,
            lastResponse>>
ledgerVars == <<transactions, nextId, tasks, opsLeft, credited>>

vars == <<activeSessionId, sessionInitPromise, promises, calls, initRequestsSent,
          lastResponse, transactions, nextId, tasks, opsLeft, credited>>

(***************************************************************************)
(* Protocol client                                                         *)
(***************************************************************************)
IdleCall == [pc |-> "idle", method |-> "none", awaiting |-> NoPromise, session |-> NULL,
             error |-> "none"]

\* HTTP/JSON-RPC responses of the remote endpoint.  status: the HTTP status is
\* 2xx or not; body: what the JSON body carries; header: the Mcp-Session-Id
\* response header; sessionObj/sessionId/id: fields of an initialize result.
NoResult(status, body) ==
  [status |-> status, body |-> body, header |-> NULL, sessionObj |-> NULL,
   sessionId |-> NULL, id |-> NULL]

\* the failing answers explored: a non-2xx status, a JSON-RPC error, a body with
\* neither result nor error
FailureResponses ==
  {NoResult("non2xx", "result"), NoResult("ok", "error"), NoResult("ok", "neither")}

\* answers to initialize: a result whose token may sit in any of the four places
InitializeResponses ==
  FailureResponses \cup
  [status : {"ok"}, body : {"result"},
   header : Tokens \cup {NULL},
   sessionObj : Tokens \cup {NULL},
   sessionId : Tokens \cup {NULL},
   id : Tokens \cup {NULL}]

\* answers to any other request
Responses == FailureResponses \cup {NoResult("ok", "result")}

\* no answer received yet
NoResponse == NoResult("none", "none")

\* further outcomes of fetch: the promise of fetch rejects (status "rejected": the
\* network failed), a body that is not JSON, a body with both result and error,
\* a non-2xx answer whose body is a JSON-RPC error
EnvelopeResponses ==
  Responses \cup {NoResult("rejected", "none"), NoResult("ok", "invalidJson"),
                  NoResult("ok", "both"), NoResult("non2xx", "error")}

\* a slip: sendJsonRpcRequest without the check of data.error
SendError_ErrorUnchecked(r) ==
  IF r.status = "rejected" THEN "fetchFailed"
  ELSE IF r.status # "ok" THEN "http"
  ELSE IF r.body = "invalidJson" THEN "invalidJson"
  ELSE IF r.body \in {"neither", "error"} THEN "missingResult"
  ELSE "none"

\* sendJsonRpcRequest: the error it throws for a response, "none" when it returns
SendError(r) ==
  IF r.status = "rejected" THEN "fetchFailed"
  ELSE IF r.status # "ok" THEN "http"
  ELSE IF r.body = "invalidJson" THEN "invalidJson"
  ELSE IF r.body \in {"error", "both"} THEN "rpcError"
  ELSE IF r.body = "neither" THEN "missingResult"
  ELSE "none"

\* the message of the AppError sendJsonRpcRequest and initializeSession throw,
\* up to the text they interpolate; a rejection of fetch is not an AppError
AppErrorMessage(err) ==
  CASE err = "http" -> "MCP request failed with status"
    [] err = "invalidJson" -> "MCP response was empty or invalid JSON"
    [] err = "rpcError" -> "MCP error ("
    [] err = "missingResult" -> "MCP response missing result payload"
    [] err = "missingSession" -> "MCP initialize response missing session id"
    [] OTHER -> "fetch failed"

\* a slip: the fields of the result are looked at before the session header
NewSessionId_ResultFirst(r) ==
  IF r.sessionObj # NULL THEN r.sessionObj
  ELSE IF r.sessionId # NULL THEN r.sessionId
  ELSE IF r.id # NULL THEN r.id
  ELSE r.header

\* initializeSession: headerSessionId || result.session.id || result.sessionId || result.id
NewSessionId(r) ==
  IF r.header # NULL THEN r.header
  ELSE IF r.sessionObj # NULL THEN r.sessionObj
  ELSE IF r.sessionId # NULL THEN r.sessionId
  ELSE r.id

\* initializeSession: the error of an initialization attempt, "none" on success
InitError(r) ==
  IF SendError(r) # "none" THEN SendError(r)
  ELSE IF NewSessionId(r) = NULL THEN "missingSession"
  ELSE "none"

PendingPromises == {p \in DOMAIN promises : promises[p].state = "pending"}

\* initialize requests that have been sent and not yet answered
InitializeInFlight ==
  Cardinality(PendingPromises)
    + Cardinality({c \in Calls : calls[c].pc = "sent" /\ calls[c].method = "initialize"})

\* initialize requests in flight that session establishment (ensureSession) issued
SessionInitInFlight == Cardinality(PendingPromises)

\* a slip: ensureSession without the check of the pending slot
MustInitialize_NoDedup == TRUE

\* ensureSession, reached with no cached token: whether this caller starts
\* initializeSession (the slot is empty) or awaits the pending promise
MustInitialize == sessionInitPromise = NoPromise

\* a slip: ensureSession without the early return of the cached token
HasCachedSession_Never == FALSE

\* ensureSession: `if (activeSessionId) return activeSessionId`
HasCachedSession == activeSessionId # NULL

\* a slip: buildHeaders without the session header
BuildHeaders_NoSession(sessionId) == NULL

\* buildHeaders(sessionId): the Mcp-Session-Id header of the request (NULL: none)
BuildHeaders(sessionId) == sessionId

\* callMcp(method): the synchronous part up to its first await
CallMcp(c, m) ==
  /\ calls[c].pc = "idle"
  /\ \A b \in Calls : b < c => calls[b].pc # "idle"   \* invocations are numbered as they start
  /\ IF m = "initialize"
       THEN \* sendJsonRpcRequest(method, params) without session
            /\ calls' = [calls EXCEPT ![c] = [IdleCall EXCEPT !.pc = "sent", !.method = m]]
            /\ initRequestsSent' = initRequestsSent + 1
            /\ UNCHANGED <<activeSessionId, sessionInitPromise, promises>>
       ELSE IF HasCachedSession
         THEN \* ensureSession returns the cached token; the request carries it
              /\ calls' = [calls EXCEPT ![c] =
                             [IdleCall EXCEPT !.pc = "sent", !.method = m,
                                              !.session = BuildHeaders(activeSessionId)]]
              /\ UNCHANGED <<activeSessionId, sessionInitPromise, promises, initRequestsSent>>
         ELSE IF MustInitialize
           THEN \* initializeSession() sends initialize; the promise is installed
                LET p == Len(promises) + 1 IN
                /\ promises' = Append(promises,
                                      [state |-> "pending", value |-> NULL, error |-> "none"])
                /\ sessionInitPromise' = p
                /\ initRequestsSent' = initRequestsSent + 1
                /\ calls' = [calls EXCEPT ![c] =
                               [IdleCall EXCEPT !.pc = "awaitSession", !.method = m,
                                                !.awaiting = p]]
                /\ UNCHANGED activeSessionId
           ELSE \* await the pending promise
                /\ calls' = [calls EXCEPT ![c] =
                               [IdleCall EXCEPT !.pc = "awaitSession", !.method = m,
                                                !.awaiting = sessionInitPromise]]
                /\ UNCHANGED <<activeSessionId, sessionInitPromise, promises, initRequestsSent>>

\* a slip: the slot is cleared only when the attempt failed
SlotAfterSettle_KeptOnSuccess(err) == IF err = "none" THEN sessionInitPromise ELSE NoPromise

\* a slip: the slot is cleared only when the attempt succeeded
SlotAfterSettle_KeptOnFailure(err) == IF err = "none" THEN NoPromise ELSE sessionInitPromise

\* the .finally() callback of ensureSession: the slot after the attempt settled
SlotAfterSettle(err) == NoPromise

\* the answer to the initialize request of promise p arrives: initializeSession
\* finishes and the .finally() callback runs
InitializeSettles(p, r) ==
  /\ p \in PendingPromises
  /\ LET err == InitError(r) IN
     /\ promises' = [promises EXCEPT ![p] =
                       IF err = "none"
                         THEN [state |-> "fulfilled", value |-> NewSessionId(r), error |-> "none"]
                         ELSE [state |-> "rejected", value |-> NULL, error |-> err]]
     /\ activeSessionId' = IF err = "none" THEN NewSessionId(r) ELSE activeSessionId
     /\ sessionInitPromise' = SlotAfterSettle(err)
  /\ UNCHANGED <<calls, initRequestsSent>>

\* a slip: the caller sends its request although the awaited attempt failed
ResumedCall_SendsAnyway(call, pr) ==
  [call EXCEPT !.pc = "sent", !.session = BuildHeaders(pr.value)]

\* callMcp after `await ensureSession()`: the await throws the attempt's error
\* or gives the token the request is sent with
ResumedCall(call, pr) ==
  IF pr.state = "fulfilled"
    THEN [call EXCEPT !.pc = "sent", !.session = BuildHeaders(pr.value)]
    ELSE [call EXCEPT !.pc = "failed", !.error = pr.error]

\* callMcp resumes after `await ensureSession()`
ResumeAfterSession(c) ==
  /\ calls[c].pc = "awaitSession"
  /\ promises[calls[c].awaiting].state # "pending"
  /\ calls' = [calls EXCEPT ![c] = ResumedCall(@, promises[calls[c].awaiting])]
  /\ UNCHANGED <<activeSessionId, sessionInitPromise, promises, initRequestsSent>>

\* the answer to a caller's own request arrives
CallSettles(c, r) ==
  /\ calls[c].pc = "sent"
  /\ calls' = [calls EXCEPT ![c] =
                 IF SendError(r) = "none"
                   THEN [@ EXCEPT !.pc = "done"]
                   ELSE [@ EXCEPT !.pc = "failed", !.error = SendError(r)]]
  /\ UNCHANGED <<activeSessionId, sessionInitPromise, promises, initRequestsSent>>

(***************************************************************************)
(* Ledger: the transactions table (store) and the Ledger Service            *)
(***************************************************************************)
\* an absent key of a JavaScript object
UNDEF == "undefined"
\* the requests served concurrently
Tasks == {"t1", "t2"}
\* the person names that occur
Debtors == {"Budi", "Siti"}
TRANSACTION_TYPES == {"spending", "earning", "debts"}

\* JavaScript truthiness of a string-or-absent value
Truthy(v) == v \notin {NULL, UNDEF, ""}
\* `v ?? null`
OrNull(v) == IF v = UNDEF THEN NULL ELSE v

NoRow == [id |-> 0, type |-> "none", debtor_name |-> NULL, nominal |-> 0,
          note |-> NULL, invoice_url |-> NULL, created_at |-> 0]
NoPayload == [type |-> UNDEF, debtor_name |-> UNDEF, nominal |-> 0,
              nominal_kind |-> "missing", note |-> UNDEF, invoice_url |-> UNDEF]
NoIntent == [original_prompt |-> "", action |-> "none", debtor_name |-> "", nominal |-> 0]

\* TransactionSummary before any row is added to it
NoSummary == [total_debts |-> 0, total_spending |-> 0, total_earning |-> 0]

\* a JavaScript number: NaN, or the integer n
NaN == [nan |-> TRUE, n |-> 0]
Number(n) == [nan |-> FALSE, n |-> n]

\* a query parameter that should hold a number: absent, the empty string, the
\* decimal digits of the integer n, or a text parseInt makes nothing of
RawNumber(kind, n) == [kind |-> kind, n |-> n]

\* the query string of a list request, here before any was received; the type
\* parameter, when present, is given by its comma-separated members
NoQuery == [page |-> RawNumber("absent", 0), per_page |-> RawNumber("absent", 0),
            type |-> [present |-> FALSE, members |-> <<>>]]

\* TransactionFilterOptions, here before any was built
NoFilters == [page |-> Number(0), perPage |-> Number(0), hasTypes |-> FALSE,
              types |-> <<>>]

\* an ISO 8601 timestamp in UTC as toISOString writes it, here of instant 0
NoDate == [utcDay |-> 0, utcInstant |-> 0]

\* the message content of a completion, here before any was returned: `kind`
\* tells what JSON.parse makes of it, `json` is the object it parses to
NoContent == [kind |-> "none", json |-> NoIntent]

\* `error` is the failure of the ledger service, `thrown` what the caller of the
\* request gets; `started` is the budget left when the request began: it tells requests apart
IdleTask == [pc |-> "idle", op |-> "none", via |-> "none", intent |-> NoIntent,
             payload |-> NoPayload, upsert |-> FALSE, found |-> NoRow,
             error |-> "none", result |-> NoRow, reads |-> 0, writes |-> 0,
             started |-> 0, since |-> 0, summary |-> NoSummary, thrown |-> "none",
             query |-> NoQuery, filters |-> NoFilters, prompt |-> "",
             content |-> NoContent, timeRange |-> "none", now |-> 0, later |-> 0,
             startDate |-> NoDate, endDate |-> NoDate]

\* a request slot is free when nothing runs in it
Free(t) == tasks[t].pc \in {"idle", "done", "failed"}
\* a request takes the first free slot, while the budget lasts
CanStart(t) == Free(t) /\ opsLeft > 0 /\ (t = "t2" => ~Free("t1"))

HasRow(id) == \E r \in transactions : r.id = id
RowById(id) == CHOOSE r \in transactions : r.id = id

\* repository.create with mapPayload: the row the store inserts
InsertedRow(payload) ==
  [id |-> nextId, type |-> payload.type, debtor_name |-> OrNull(payload.debtor_name),
   nominal |-> payload.nominal, note |-> OrNull(payload.note),
   invoice_url |-> OrNull(payload.invoice_url), created_at |-> nextId]

\* repository.findDebtByDebtorName: the rows that match (one of them is returned)
FindDebtByDebtorName(name) ==
  {r \in transactions : r.type = "debts" /\ r.debtor_name = name}

\* what the lookup may return: a matching row, or nothing
FoundDebt(name) ==
  IF FindDebtByDebtorName(name) = {} THEN {NoRow} ELSE FindDebtByDebtorName(name)

\* a slip: the update writes the amount only
AccumulatedRow_AmountOnly(row, newNominal, payload) == [row EXCEPT !.nominal = newNominal]

\* repository.accumulateDebt: the row after the update by id
AccumulatedRow(row, newNominal, payload) ==
  [row EXCEPT !.nominal = newNominal, !.note = OrNull(payload.note),
              !.invoice_url = OrNull(payload.invoice_url)]

\* a slip: the new amount replaces the stored one instead of adding to it
NewNominal_Replace(existingDebt, payload) == payload.nominal

\* create: const newNominal = existingDebt.nominal + payload.nominal
NewNominal(existingDebt, payload) == existingDebt.nominal + payload.nominal

\* an atomic variant: the amount is read again at the time of the write
ExistingDebtAtWrite_Fresh(t) ==
  IF HasRow(tasks[t].found.id) THEN RowById(tasks[t].found.id) ELSE tasks[t].found

\* create: the existingDebt the write uses is the one read before the await
ExistingDebtAtWrite(t) == tasks[t].found

NewTask(op, via, intent, payload, upsert) ==
  [IdleTask EXCEPT !.op = op, !.via = via, !.intent = intent, !.payload = payload,
                   !.upsert = upsert, !.started = opsLeft]

\* TransactionService.create(payload, {upsert}): up to its first store access
\* included (the lookup when accumulating, the insert otherwise)
Create(t, payload, upsert, via, intent) ==
  /\ CanStart(t)
  /\ opsLeft' = opsLeft - 1
  /\ IF upsert /\ payload.type = "debts" /\ Truthy(payload.debtor_name)
       THEN /\ \E f \in FoundDebt(payload.debtor_name) :
                 tasks' = [tasks EXCEPT ![t] =
                             [NewTask("create", via, intent, payload, upsert)
                                EXCEPT !.pc = "afterFind", !.found = f, !.reads = 1]]
            /\ UNCHANGED <<transactions, nextId, credited>>
       ELSE /\ transactions' = transactions \cup {InsertedRow(payload)}
            /\ nextId' = nextId + 1
            /\ tasks' = [tasks EXCEPT ![t] =
                           [NewTask("create", via, intent, payload, upsert)
                              EXCEPT !.pc = "done", !.result = InsertedRow(payload),
                                     !.writes = 1]]
            /\ UNCHANGED credited

\* TransactionService.create after `await findDebtByDebtorName`: accumulate
\* into the row that was found, or insert when none was
CreateAfterFind(t) ==
  /\ tasks[t].pc = "afterFind"
  /\ tasks[t].op = "create"
  /\ LET payload == tasks[t].payload
         existingDebt == ExistingDebtAtWrite(t)
     IN IF tasks[t].found # NoRow
          THEN IF HasRow(existingDebt.id)
                 THEN LET new == AccumulatedRow(RowById(existingDebt.id),
                                                NewNominal(existingDebt, payload), payload)
                      IN /\ transactions' =
                              (transactions \ {RowById(existingDebt.id)}) \cup {new}
                         /\ tasks' = [tasks EXCEPT ![t] =
                                        [@ EXCEPT !.pc = "done", !.result = new,
                                                  !.writes = @ + 1]]
                         /\ credited' = [credited EXCEPT ![payload.debtor_name] =
                                           @ + payload.nominal]
                         /\ UNCHANGED nextId
                 ELSE \* the row is gone: the store reports no row
                      /\ tasks' = [tasks EXCEPT ![t] =
                                     [@ EXCEPT !.pc = "failed", !.error = "NotFound",
                                               !.writes = @ + 1]]
                      /\ UNCHANGED <<transactions, nextId, credited>>
          ELSE /\ transactions' = transactions \cup {InsertedRow(payload)}
               /\ nextId' = nextId + 1
               /\ tasks' = [tasks EXCEPT ![t] =
                              [@ EXCEPT !.pc = "done", !.result = InsertedRow(payload),
                                        !.writes = @ + 1]]
               /\ credited' = [credited EXCEPT ![payload.debtor_name] =
                                 @ + payload.nominal]
  /\ UNCHANGED opsLeft

\* payloads of the accumulating debt creations explored: with a note and an
\* attachment, or with neither
AccumPayloads ==
  [type : {"debts"}, debtor_name : Debtors, nominal : {1, 2}, nominal_kind : {"number"},
   note : {UNDEF}, invoice_url : {UNDEF}]
  \cup
  [type : {"debts"}, debtor_name : Debtors, nominal : {1, 2}, nominal_kind : {"number"},
   note : {"n1"}, invoice_url : {"u1"}]

\* create(payload, {upsert: true}) of kind debt
AccumulateDebt(t, payload) == Create(t, payload, TRUE, "api", NoIntent)

\* no request is between its steps
Quiet == \A t \in Tasks : Free(t)

(***************************************************************************)
(* Ledger: update, delete, repay and the validated HTTP entry points        *)
(***************************************************************************)
\* request bodies that reach the validation middleware of POST/PUT /transactions
ApiRawPayloads ==
  [type : {"spending", "debts"}, debtor_name : {UNDEF, "", "Budi"},
   nominal : {0, 1}, nominal_kind : {"number"},
   note : {UNDEF}, invoice_url : {UNDEF}]
  \cup
  [type : {UNDEF, "loan"}, debtor_name : {UNDEF}, nominal : {1},
   nominal_kind : {"number"}, note : {UNDEF}, invoice_url : {UNDEF}]
  \cup
  [type : {"spending"}, debtor_name : {UNDEF}, nominal : {0},
   nominal_kind : {"missing", "string"}, note : {UNDEF}, invoice_url : {UNDEF}]

\* transactionCreateSchema / transactionUpdateSchema: the body is accepted
ValidPayload(p) ==
  /\ p.nominal_kind = "number"
  /\ p.nominal > 0
  /\ p.type \in TRANSACTION_TYPES
  /\ p.type = "debts" => Truthy(p.debtor_name)

\* debtorNameSchema: trim, then '' becomes undefined
Normalized(p) == [p EXCEPT !.debtor_name = IF @ = "" THEN UNDEF ELSE @]

\* createTransaction (controller) behind validate(transactionCreateSchema)
CreateTransaction(t, p, upsert) ==
  /\ ValidPayload(p)
  /\ Create(t, Normalized(p), upsert, "api", NoIntent)

\* validate(...) rejects the body: the service is not called
RejectedByValidation(t, p) ==
  /\ CanStart(t)
  /\ ~ValidPayload(p)
  /\ opsLeft' = opsLeft - 1
  /\ tasks' = [tasks EXCEPT ![t] =
                 [NewTask("rejected", "api", NoIntent, p, FALSE)
                    EXCEPT !.pc = "failed", !.error = "ValidationError"]]
  /\ UNCHANGED <<transactions, nextId, credited>>

\* a slip: the update writes 0 for an amount the payload does not carry
UpdatedRow_ZeroesAmount(row, payload) ==
  [row EXCEPT !.debtor_name = OrNull(payload.debtor_name),
              !.nominal = IF payload.nominal_kind = "number" THEN payload.nominal ELSE 0,
              !.type = IF payload.type = UNDEF THEN @ ELSE payload.type,
              !.note = OrNull(payload.note),
              !.invoice_url = OrNull(payload.invoice_url)]

\* repository.updateById: the row after the update; a key whose value is
\* undefined is not sent, `?? null` sends null
UpdatedRow(row, payload) ==
  [row EXCEPT !.debtor_name = OrNull(payload.debtor_name),
              !.nominal = IF payload.nominal_kind = "number" THEN payload.nominal ELSE @,
              !.type = IF payload.type = UNDEF THEN @ ELSE payload.type,
              !.note = OrNull(payload.note),
              !.invoice_url = OrNull(payload.invoice_url)]

\* the ids a request may name: the rows that ever existed and one that never did
KnownIds == 1..nextId

\* TransactionService.update(id, payload) behind validate(transactionUpdateSchema)
UpdateTransactionById(t, id, p) ==
  /\ CanStart(t)
  /\ ValidPayload(p)
  /\ opsLeft' = opsLeft - 1
  /\ IF HasRow(id)
       THEN LET new == UpdatedRow(RowById(id), Normalized(p)) IN
            /\ transactions' = (transactions \ {RowById(id)}) \cup {new}
            /\ tasks' = [tasks EXCEPT ![t] =
                           [NewTask("update", "api", NoIntent, Normalized(p), FALSE)
                              EXCEPT !.pc = "done", !.result = new, !.writes = 1]]
       ELSE /\ tasks' = [tasks EXCEPT ![t] =
                           [NewTask("update", "api", NoIntent, Normalized(p), FALSE)
                              EXCEPT !.pc = "failed", !.error = "NotFound", !.writes = 1]]
            /\ UNCHANGED transactions
  /\ UNCHANGED <<nextId, credited>>

\* TransactionService.delete(id)
DeleteTransactionById(t, id) ==
  /\ CanStart(t)
  /\ opsLeft' = opsLeft - 1
  /\ IF HasRow(id)
       THEN /\ transactions' = transactions \ {RowById(id)}
            /\ tasks' = [tasks EXCEPT ![t] =
                           [NewTask("delete", "api", NoIntent, NoPayload, FALSE)
                              EXCEPT !.pc = "done", !.result = RowById(id), !.writes = 1]]
       ELSE /\ tasks' = [tasks EXCEPT ![t] =
                           [NewTask("delete", "api", NoIntent, NoPayload, FALSE)
                              EXCEPT !.pc = "failed", !.error = "NotFound", !.writes = 1]]
            /\ UNCHANGED transactions
  /\ UNCHANGED <<nextId, credited>>

\* a slip: repay updates the note only, the entry stays the debtor's debt
RepayPayload_NoteOnly(name) ==
  [type |-> UNDEF, debtor_name |-> name, nominal |-> 0, nominal_kind |-> "missing",
   note |-> "Pembayaran Hutang " \o name, invoice_url |-> UNDEF]

\* the payload repay passes to updateById
RepayPayload(name) ==
  [type |-> "earning", debtor_name |-> NULL, nominal |-> 0, nominal_kind |-> "missing",
   note |-> "Pembayaran Hutang " \o name, invoice_url |-> UNDEF]

\* a slip: a debt without a debtor name is repaid all the same
RepayError_NoNameCheck(row, missing) ==
  IF row = NoRow THEN missing
  ELSE IF row.type # "debts" THEN "NotADebt"
  ELSE "none"

\* repay: the checks on the row that was looked up; "none" when it may be repaid
RepayError(row, missing) ==
  IF row = NoRow THEN missing
  ELSE IF row.type # "debts" THEN "NotADebt"
  ELSE IF ~Truthy(row.debtor_name) THEN "NoDebtorName"
  ELSE "none"

\* a slip: the catch turns every failure into the 404 of a missing debt
HandleRepayDebtCatch_WrapsAll(error, debtor_name) ==
  "AppError 404: Tidak ada hutang yang tercatat untuk " \o debtor_name

\* handleRepayDebt, the catch: a failure whose message includes 'No debt found'
\* becomes an AppError 404 with the localized message, any other is rethrown
HandleRepayDebtCatch(error, debtor_name) ==
  IF error = "NoDebtFound"
    THEN "AppError 404: Tidak ada hutang yang tercatat untuk " \o debtor_name
    ELSE error

\* what the caller of a failed repay gets: the agent's catch sits between
Thrown(via, error, intent) ==
  IF via = "agent" THEN HandleRepayDebtCatch(error, intent.debtor_name) ELSE error

\* repay, up to its lookup included: `row` is what the lookup returned
Repay(t, op, row, missing, via, intent) ==
  /\ CanStart(t)
  /\ opsLeft' = opsLeft - 1
  /\ tasks' = [tasks EXCEPT ![t] =
                 IF RepayError(row, missing) = "none"
                   THEN [NewTask(op, via, intent, RepayPayload(row.debtor_name), FALSE)
                           EXCEPT !.pc = "afterFind", !.found = row, !.reads = 1]
                   ELSE [NewTask(op, via, intent, NoPayload, FALSE)
                           EXCEPT !.pc = "failed", !.found = row, !.reads = 1,
                                  !.error = RepayError(row, missing),
                                  !.thrown = Thrown(via, RepayError(row, missing), intent)]]
  /\ UNCHANGED <<transactions, nextId, credited>>

\* TransactionService.repayDebt(id): findById, then the checks
RepayDebt(t, id) ==
  Repay(t, "repay", IF HasRow(id) THEN RowById(id) ELSE NoRow, "NotFound", "api", NoIntent)

\* TransactionService.repayDebtByDebtorName(name): findDebtByDebtorName, then the checks
RepayDebtByDebtorName(t, name, via, intent) ==
  \E row \in FoundDebt(name) : Repay(t, "repayByName", row, "NoDebtFound", via, intent)

\* repay after its lookup: updateById(found.id, {type, debtor_name, note})
RepayAfterFind(t) ==
  /\ tasks[t].pc = "afterFind"
  /\ tasks[t].op \in {"repay", "repayByName"}
  /\ IF HasRow(tasks[t].found.id)
       THEN LET new == UpdatedRow(RowById(tasks[t].found.id), tasks[t].payload) IN
            /\ transactions' = (transactions \ {RowById(tasks[t].found.id)}) \cup {new}
            /\ tasks' = [tasks EXCEPT ![t] =
                           [@ EXCEPT !.pc = "done", !.result = new, !.writes = @ + 1]]
       ELSE /\ tasks' = [tasks EXCEPT ![t] =
                           [@ EXCEPT !.pc = "failed", !.error = "NotFound",
                                     !.writes = @ + 1,
                                     !.thrown = Thrown(tasks[t].via, "NotFound",
                                                       tasks[t].intent)]]
            /\ UNCHANGED transactions
  /\ UNCHANGED <<nextId, opsLeft, credited>>

(***************************************************************************)
(* Agent orchestrator                                                      *)
(***************************************************************************)
DebtActions == {"upsert_debt", "get_debt", "repay_debt"}
Actions == DebtActions \cup {"insert_spending", "insert_earning"}

\* the parsed intents explored: every value DEBT_PARSER_RESPONSE_SCHEMA admits
\* over these names and amounts, with original_prompt set to the prompt
Intents ==
  [original_prompt : {"prompt"}, action : Actions, debtor_name : {"", "Budi"},
   nominal : {0, 1}]

\* parsed intents whose action is none of the five: parseDebtPrompt returns
\* the provider's JSON as it is
OffSchemaIntents ==
  [original_prompt : {"prompt"}, action : {"transfer"}, debtor_name : {"Budi"},
   nominal : {1}]

\* the user prompts explored
Prompts == {"budi hutang 1", " Budi hutang 1 "}

\* what the provider may return as message content: nothing (null or ""), a
\* text that is not JSON, the JSON null, a JSON number, or a JSON object with
\* any action and with an original_prompt that is absent, the prompt, or the
\* prompt rewritten
ProviderContents ==
  {[kind |-> k, json |-> NoIntent] : k \in {"empty", "notJson", "jsonNull", "jsonNumber"}}
  \cup
  {[kind |-> "object", json |-> i] :
     i \in [original_prompt : {UNDEF, "budi hutang 1", "Budi hutang 1"},
            action : Actions \cup {"transfer"}, debtor_name : {"", "Budi"},
            nominal : {0, 1}]}

\* parseDebtPrompt: what it throws for a content, "none" when it returns.
\* JSON.parse throws on a text that is not JSON; the assignment of
\* original_prompt throws on null and, in the strict code of a class body, on a number
ParseError(content) ==
  CASE content.kind = "empty" -> "AI returned empty response"
    [] content.kind = "notJson" -> "SyntaxError"
    [] content.kind \in {"jsonNull", "jsonNumber"} -> "TypeError"
    [] OTHER -> "none"

\* a slip: the parsed object is returned as the provider wrote it
ParsedIntent_AsReturned(userPrompt, content) == content.json

\* parseDebtPrompt: JSON.parse(content) with original_prompt set to userPrompt
ParsedIntent(userPrompt, content) == [content.json EXCEPT !.original_prompt = userPrompt]

\* a prompt was sent to the provider, which returned a completion
ReceivedCompletion(userPrompt, content) ==
  [IdleTask EXCEPT !.pc = "received", !.op = "parse", !.via = "agent",
                   !.prompt = userPrompt, !.content = content]

\* AIService.parseDebtPrompt(userPrompt, systemPrompt) after the completion arrived
ParseDebtPrompt(t) ==
  /\ tasks[t].pc = "received"
  /\ tasks[t].op = "parse"
  /\ tasks' = [tasks EXCEPT ![t] =
                 IF ParseError(tasks[t].content) = "none"
                   THEN [@ EXCEPT !.pc = "done",
                                  !.intent = ParsedIntent(tasks[t].prompt, tasks[t].content)]
                   ELSE [@ EXCEPT !.pc = "failed", !.error = ParseError(tasks[t].content),
                                  !.thrown = ParseError(tasks[t].content)]]
  /\ UNCHANGED <<transactions, nextId, opsLeft, credited>>

\* a slip: the handlers leave the note out of the payload
AgentPayload_NoNote(intent) ==
  [type |-> CASE intent.action = "upsert_debt" -> "debts"
              [] intent.action = "insert_spending" -> "spending"
              [] OTHER -> "earning",
   debtor_name |-> IF intent.action = "upsert_debt" THEN intent.debtor_name ELSE UNDEF,
   nominal |-> intent.nominal, nominal_kind |-> "number",
   note |-> UNDEF, invoice_url |-> UNDEF]

\* handleUpsertDebt / handleInsertSpending / handleInsertEarning: the payload
AgentPayload(intent) ==
  [type |-> CASE intent.action = "upsert_debt" -> "debts"
              [] intent.action = "insert_spending" -> "spending"
              [] OTHER -> "earning",
   debtor_name |-> IF intent.action = "upsert_debt" THEN intent.debtor_name ELSE UNDEF,
   nominal |-> intent.nominal, nominal_kind |-> "number",
   note |-> intent.original_prompt, invoice_url |-> UNDEF]

\* handleGetDebt: findDebtByDebtorName only
GetDebt(t, intent) ==
  /\ CanStart(t)
  /\ opsLeft' = opsLeft - 1
  /\ \E row \in FoundDebt(intent.debtor_name) :
       tasks' = [tasks EXCEPT ![t] =
                   [NewTask("getDebt", "agent", intent, NoPayload, FALSE)
                      EXCEPT !.pc = "done", !.found = row, !.result = row, !.reads = 1]]
  /\ UNCHANGED <<transactions, nextId, credited>>

\* processDebtPrompt, the default of the switch: AppError('Unknown action', 400)
UnknownAction(t, intent) ==
  /\ CanStart(t)
  /\ opsLeft' = opsLeft - 1
  /\ tasks' = [tasks EXCEPT ![t] =
                 [NewTask("none", "agent", intent, NoPayload, FALSE)
                    EXCEPT !.pc = "failed", !.error = "UnknownAction",
                           !.thrown = "UnknownAction"]]
  /\ UNCHANGED <<transactions, nextId, credited>>

\* the action of the DebtActionResult a handler returns: each handler names
\* its own action
ActionResult(task) ==
  CASE task.op = "getDebt" -> "get_debt"
    [] task.op = "repayByName" -> "repay_debt"
    [] task.op = "create" /\ task.payload.type = "debts" -> "upsert_debt"
    [] task.op = "create" /\ task.payload.type = "spending" -> "insert_spending"
    [] task.op = "create" /\ task.payload.type = "earning" -> "insert_earning"
    [] OTHER -> "none"

\* processDebtPrompt: the switch over the parsed intent's action
ProcessDebtPrompt(t, intent) ==
  CASE intent.action = "upsert_debt" -> Create(t, AgentPayload(intent), TRUE, "agent", intent)
    [] intent.action = "get_debt" -> GetDebt(t, intent)
    [] intent.action = "repay_debt" ->
         RepayDebtByDebtorName(t, intent.debtor_name, "agent", intent)
    [] intent.action \in {"insert_spending", "insert_earning"} ->
         Create(t, AgentPayload(intent), FALSE, "agent", intent)
    [] OTHER -> UnknownAction(t, intent)

(***************************************************************************)
(* Ledger: summary                                                         *)
(***************************************************************************)
\* repository.getSummaryByRange: created_at >= startDate and created_at < endDate
GetSummaryByRange(startDate, endDate) ==
  {r \in transactions : r.created_at >= startDate /\ r.created_at < endDate}

\* the rows of a result set as the array the store returns (here by id)
RECURSIVE RowsAsArray(_)
RowsAsArray(rows) ==
  IF rows = {} THEN <<>>
  ELSE LET first == CHOOSE r \in rows : \A q \in rows : r.id <= q.id
       IN <<first>> \o RowsAsArray(rows \ {first})

\* a slip: the body of the forEach assigns where it should add
AddToSummary_Assigns(summary, transaction) ==
  IF transaction.type = "debts"
    THEN [summary EXCEPT !.total_debts = transaction.nominal]
  ELSE IF transaction.type = "spending"
    THEN [summary EXCEPT !.total_spending = transaction.nominal]
  ELSE IF transaction.type = "earning"
    THEN [summary EXCEPT !.total_earning = transaction.nominal]
  ELSE summary

\* a slip: an earning is added to the spending total
AddToSummary_EarningAsSpending(summary, transaction) ==
  IF transaction.type = "debts"
    THEN [summary EXCEPT !.total_debts = @ + transaction.nominal]
  ELSE IF transaction.type \in {"spending", "earning"}
    THEN [summary EXCEPT !.total_spending = @ + transaction.nominal]
  ELSE summary

\* getSummary: the body of the forEach over the returned rows
AddToSummary(summary, transaction) ==
  IF transaction.type = "debts"
    THEN [summary EXCEPT !.total_debts = @ + transaction.nominal]
  ELSE IF transaction.type = "spending"
    THEN [summary EXCEPT !.total_spending = @ + transaction.nominal]
  ELSE IF transaction.type = "earning"
    THEN [summary EXCEPT !.total_earning = @ + transaction.nominal]
  ELSE summary

\* getSummary: the forEach, from the zero summary
RECURSIVE Summarize(_, _)
Summarize(summary, array) ==
  IF array = <<>> THEN summary
  ELSE Summarize(AddToSummary(summary, Head(array)), Tail(array))

\* TransactionService.getSummary(timeRange): the range starts at startDate and
\* ends after the present moment, which is the time the next insert would get
GetSummary(t, startDate) ==
  /\ CanStart(t)
  /\ opsLeft' = opsLeft - 1
  /\ tasks' = [tasks EXCEPT ![t] =
       [NewTask("summary", "api", NoIntent, NoPayload, FALSE)
          EXCEPT !.pc = "done", !.reads = 1, !.since = startDate,
                 !.summary = Summarize(NoSummary,
                               RowsAsArray(GetSummaryByRange(startDate, nextId + 1)))]]
  /\ UNCHANGED <<transactions, nextId, credited>>

(***************************************************************************)
(* Ledger: the time range of a summary                                     *)
(***************************************************************************)
\* A Date holds an instant, here the number of explored instants since the
\* first instant of 1 January of year 0; its accessors work on the local
\* calendar.  Years have 365 days (no leap year is explored) and the local
\* time zone has a fixed offset, which the origin absorbs.
TimeRanges == {"day", "week", "month"}
MonthLengths == <<31, 28, 31, 30, 31, 30, 31, 31, 30, 31, 30, 31>>

\* days of a year before its month m (0 is January)
RECURSIVE DaysBeforeMonth(_)
DaysBeforeMonth(m) == IF m = 0 THEN 0 ELSE DaysBeforeMonth(m - 1) + MonthLengths[m]

DaysPerYear == DaysBeforeMonth(12)
\* getDay() of 1 January of year 0: a Wednesday, as in 2025
EpochWeekday == 3

\* the day an instant lies in
DayOfInstant(i) == i \div InstantsPerDay
\* getFullYear(), getMonth(), getDate(), getDay() of a day
GetFullYear(d) == d \div DaysPerYear
GetMonth(d) ==
  CHOOSE m \in 0..11 :
    /\ DaysBeforeMonth(m) <= d % DaysPerYear
    /\ d % DaysPerYear < DaysBeforeMonth(m + 1)
GetDate(d) == (d % DaysPerYear) - DaysBeforeMonth(GetMonth(d)) + 1
GetDay(d) == (d + EpochWeekday) % 7

\* new Date(year, month, date) and the day setDate arrives at: a month or a
\* date outside its range carries over into the neighbouring years and months
MakeDay(year, month, date) ==
  (year + (month \div 12)) * DaysPerYear + DaysBeforeMonth(month % 12) + date - 1

\* date.setDate(n): the day of the month is set, the time of day is kept
SetDate(i, n) ==
  MakeDay(GetFullYear(DayOfInstant(i)), GetMonth(DayOfInstant(i)), n) * InstantsPerDay
    + (i % InstantsPerDay)
\* date.setHours(0, 0, 0, 0)
SetHoursZero(i) == DayOfInstant(i) * InstantsPerDay

\* date.toISOString(): the instant written as a UTC timestamp
ToISOString(i) == [utcDay |-> i \div InstantsPerDay, utcInstant |-> i % InstantsPerDay]
\* the instant the store reads a timestamp as when it compares it with created_at
TimestampOf(iso) == iso.utcDay * InstantsPerDay + iso.utcInstant

\* a slip: the week computation without the case of Sunday
WeekDiff_NoSundayCase(day) == 1

\* getTimeRangeStart/End: `(day === 0 ? -6 : 1)`
WeekDiff(day) == IF day = 0 THEN 0 - 6 ELSE 1

\* getTimeRangeStart(timeRange), `now` being what new Date() gave
GetTimeRangeStart(now, timeRange) ==
  LET d == DayOfInstant(now) IN
  CASE timeRange = "day" -> ToISOString(SetHoursZero(now))
    [] timeRange = "week" ->
         LET diff == GetDate(d) - GetDay(d) + WeekDiff(GetDay(d))
         IN ToISOString(SetHoursZero(SetDate(now, diff)))
    [] timeRange = "month" ->
         ToISOString(MakeDay(GetFullYear(d), GetMonth(d), 1) * InstantsPerDay)

\* getTimeRangeEnd(timeRange), `now` being what new Date() gave
GetTimeRangeEnd(now, timeRange) ==
  LET d == DayOfInstant(now) IN
  CASE timeRange = "day" -> ToISOString(SetHoursZero(SetDate(now, GetDate(d) + 1)))
    [] timeRange = "week" ->
         LET diff == GetDate(d) - GetDay(d) + WeekDiff(GetDay(d)) + 7
         IN ToISOString(SetHoursZero(SetDate(now, diff)))
    [] timeRange = "month" ->
         ToISOString(MakeDay(GetFullYear(d), GetMonth(d) + 1, 1) * InstantsPerDay)

\* a summary request for a time range has arrived at instant now
ReceivedSummary(timeRange, now) ==
  [IdleTask EXCEPT !.pc = "received", !.op = "summary", !.via = "api",
                   !.timeRange = timeRange, !.now = now]

\* TransactionService.getSummary(timeRange): getTimeRangeStart reads the clock,
\* getTimeRangeEnd reads it again `elapsed` instants later, the store is asked
\* for the rows of the range and they are added up
GetSummaryOfTimeRange(t, elapsed) ==
  /\ tasks[t].pc = "received"
  /\ tasks[t].op = "summary"
  /\ LET startDate == GetTimeRangeStart(tasks[t].now, tasks[t].timeRange)
         endDate == GetTimeRangeEnd(tasks[t].now + elapsed, tasks[t].timeRange)
     IN tasks' = [tasks EXCEPT ![t] =
          [@ EXCEPT !.pc = "done", !.reads = 1, !.later = tasks[t].now + elapsed,
                    !.startDate = startDate, !.endDate = endDate,
                    !.summary = Summarize(NoSummary,
                                  RowsAsArray(GetSummaryByRange(TimestampOf(startDate),
                                                                TimestampOf(endDate))))]]
  /\ UNCHANGED <<transactions, nextId, opsLeft, credited>>

(***************************************************************************)
(* Ledger: list                                                            *)
(***************************************************************************)
DefaultPage == 1
DefaultPerPage == 10
MinPage == 1
MinPerPage == 1
MaxPerPage == 100

\* the page and per_page parameters explored
RawNumbers ==
  {RawNumber("absent", 0), RawNumber("empty", 0), RawNumber("text", 0)}
    \cup {RawNumber("digits", n) : n \in {-1, 0, 1, 2, 10, 99, 100, 101, 500}}

\* `val || '<default>'`: an absent or empty parameter gives the default
OrDefault(raw, default) ==
  IF raw.kind \in {"absent", "empty"} THEN RawNumber("digits", default) ELSE raw

\* parseInt(string, 10)
ParseInt(raw) == IF raw.kind = "digits" THEN Number(raw.n) ELSE NaN

\* Math.max and Math.min: NaN if either argument is NaN
MathMax(a, b) ==
  IF a.nan \/ b.nan THEN NaN ELSE Number(IF a.n >= b.n THEN a.n ELSE b.n)
MathMin(a, b) ==
  IF a.nan \/ b.nan THEN NaN ELSE Number(IF a.n <= b.n THEN a.n ELSE b.n)

\* transactionListQuerySchema.page
PageOf(raw) == MathMax(ParseInt(OrDefault(raw, DefaultPage)), Number(MinPage))

\* transactionListQuerySchema.per_page
PerPageOf(raw) ==
  MathMin(MathMax(ParseInt(OrDefault(raw, DefaultPerPage)), Number(MinPerPage)),
          Number(MaxPerPage))

\* the members of a type parameter explored: in the enum, in the enum once
\* trimmed and lower-cased, empty, outside the enum
Members == {"spending", "SPENDING", " debts", "", "loan"}

\* member.trim().toLowerCase()
TrimLower(member) ==
  CASE member = "SPENDING" -> "spending"
    [] member = " debts" -> "debts"
    [] OTHER -> member

\* the type parameters explored: absent, or 1 to MaxMembers members between commas
RawTypeFilters ==
  {[present |-> FALSE, members |-> <<>>]}
    \cup {[present |-> TRUE, members |-> m] :
            m \in UNION {[1..k -> Members] : k \in 1..MaxMembers}}

\* .map(fn) of an array
RECURSIVE MapTrimLower(_)
MapTrimLower(members) ==
  IF members = <<>> THEN <<>>
  ELSE <<TrimLower(Head(members))>> \o MapTrimLower(Tail(members))

NonEmpty(member) == member # ""

\* typeFilterSchema, the first transform: undefined (<<>>) for a missing or
\* empty value and for a value without non-empty member
SplitTypes(raw) ==
  IF ~raw.present \/ raw.members = <<"">> THEN <<>>
  ELSE SelectSeq(MapTrimLower(raw.members), NonEmpty)

\* a slip: the refinement accepts a list as soon as one member is a type
TypesAccepted_Some(types) ==
  types = <<>> \/ \E i \in DOMAIN types : types[i] \in TRANSACTION_TYPES

\* typeFilterSchema, the refinement: every member is a transaction type
TypesAccepted(types) == \A i \in DOMAIN types : types[i] \in TRANSACTION_TYPES

\* the list queries explored: one parameter varies at a time
ListQueries ==
  [page : RawNumbers, per_page : {NoQuery.per_page}, type : {NoQuery.type}]
    \cup [page : {NoQuery.page}, per_page : RawNumbers, type : {NoQuery.type}]
    \cup [page : {NoQuery.page}, per_page : {NoQuery.per_page}, type : RawTypeFilters]

\* validate(transactionListQuerySchema, 'query') accepts the query
ValidListQuery(query) == TypesAccepted(SplitTypes(query.type))

\* TransactionService.list: the filters built from the validated query
FiltersOf(query) ==
  [page |-> PageOf(query.page), perPage |-> PerPageOf(query.per_page),
   hasTypes |-> SplitTypes(query.type) # <<>>, types |-> SplitTypes(query.type)]

\* a list request has been received
ReceivedList(query) == [IdleTask EXCEPT !.pc = "received", !.op = "list", !.via = "api",
                                        !.query = query]

\* getTransactions behind validate(transactionListQuerySchema, 'query'):
\* TransactionService.list passes the filters to repository.listPaginated
ListTransactions(t) ==
  /\ tasks[t].pc = "received"
  /\ tasks[t].op = "list"
  /\ ValidListQuery(tasks[t].query)
  /\ tasks' = [tasks EXCEPT ![t] =
                 [@ EXCEPT !.pc = "done", !.reads = 1,
                           !.filters = FiltersOf(tasks[t].query)]]
  /\ UNCHANGED <<transactions, nextId, opsLeft, credited>>

\* validate(transactionListQuerySchema, 'query') rejects the query
RejectedListQuery(t) ==
  /\ tasks[t].pc = "received"
  /\ tasks[t].op = "list"
  /\ ~ValidListQuery(tasks[t].query)
  /\ tasks' = [tasks EXCEPT ![t] =
                 [@ EXCEPT !.pc = "failed", !.error = "ValidationError",
                           !.thrown = "ValidationError"]]
  /\ UNCHANGED <<transactions, nextId, opsLeft, credited>>

InitMcp ==
  /\ activeSessionId = NULL
  /\ sessionInitPromise = NoPromise
  /\ promises = <<>>
  /\ calls = [c \in Calls |-> IdleCall]
  /\ initRequestsSent = 0
  /\ lastResponse = NoResponse

\* the ledger before any request: an empty table
InitLedger(budget) ==
  /\ transactions = {}
  /\ nextId = 1
  /\ tasks = [t \in Tasks |-> IdleTask]
  /\ opsLeft = budget
  /\ credited = [d \in Debtors |-> 0]

Init == InitMcp /\ InitLedger(MaxOps)

NextMcp ==
  \/ \E c \in Calls, m \in Methods : CallMcp(c, m) /\ UNCHANGED <<lastResponse, ledgerVars>>
  \/ \E p \in DOMAIN promises, r \in InitializeResponses :
        InitializeSettles(p, r) /\ UNCHANGED <<lastResponse, ledgerVars>>
  \/ \E c \in Calls : ResumeAfterSession(c) /\ UNCHANGED <<lastResponse, ledgerVars>>
  \/ \E c \in Calls, r \in Responses : CallSettles(c, r) /\ UNCHANGED <<lastResponse, ledgerVars>>

SpecMcp == Init /\ [][NextMcp]_vars

\* every outcome of fetch the client tells apart, for an initialize request
SessionResponses == InitializeResponses \cup EnvelopeResponses

\* the protocol client with the answers it receives kept in lastResponse
NextSession ==
  \/ \E c \in 1..MaxSessionCalls, m \in Methods :
        CallMcp(c, m) /\ UNCHANGED <<lastResponse, ledgerVars>>
  \/ \E p \in DOMAIN promises, r \in SessionResponses :
        InitializeSettles(p, r) /\ lastResponse' = r /\ UNCHANGED ledgerVars
  \/ \E c \in Calls : ResumeAfterSession(c) /\ UNCHANGED <<lastResponse, ledgerVars>>
  \/ \E c \in Calls, r \in EnvelopeResponses :
        CallSettles(c, r) /\ lastResponse' = r /\ UNCHANGED ledgerVars

SpecSession == Init /\ [][NextSession]_vars

\* the steps the event loop of the client itself runs: a continuation whose
\* awaited promise has settled is resumed
ClientProgress == \E c \in Calls : ResumeAfterSession(c) /\ UNCHANGED <<lastResponse, ledgerVars>>

\* the client under its own scheduling: settled awaits are resumed; nothing
\* makes the remote endpoint answer, and `await fetchFn(serverUrl, requestInit)`
\* is given no signal and no timer
SpecSessionLive == Init /\ [][NextSession]_vars /\ WF_vars(ClientProgress)

\* every kind of ledger request, from the HTTP API and from the agent
NextLedger ==
  \/ \E t \in Tasks, p \in ApiRawPayloads, upsert \in BOOLEAN :
        CreateTransaction(t, p, upsert) /\ UNCHANGED mcpVars
  \/ \E t \in Tasks, p \in ApiRawPayloads : RejectedByValidation(t, p) /\ UNCHANGED mcpVars
  \/ \E t \in Tasks, id \in KnownIds, p \in ApiRawPayloads :
        UpdateTransactionById(t, id, p) /\ UNCHANGED mcpVars
  \/ \E t \in Tasks, id \in KnownIds : DeleteTransactionById(t, id) /\ UNCHANGED mcpVars
  \/ \E t \in Tasks, id \in KnownIds : RepayDebt(t, id) /\ UNCHANGED mcpVars
  \/ \E t \in Tasks, intent \in Intents : ProcessDebtPrompt(t, intent) /\ UNCHANGED mcpVars
  \/ \E t \in Tasks, intent \in OffSchemaIntents :
        ProcessDebtPrompt(t, intent) /\ UNCHANGED mcpVars
  \/ \E t \in Tasks : CreateAfterFind(t) /\ UNCHANGED mcpVars
  \/ \E t \in Tasks : RepayAfterFind(t) /\ UNCHANGED mcpVars

SpecLedger == Init /\ [][NextLedger]_vars

\* the agent's requests with repays and deletions by id, over a longer run
NextRepay ==
  \/ \E t \in Tasks, intent \in Intents : ProcessDebtPrompt(t, intent) /\ UNCHANGED mcpVars
  \/ \E t \in Tasks, id \in KnownIds : RepayDebt(t, id) /\ UNCHANGED mcpVars
  \/ \E t \in Tasks, id \in KnownIds : DeleteTransactionById(t, id) /\ UNCHANGED mcpVars
  \/ \E t \in Tasks : CreateAfterFind(t) /\ UNCHANGED mcpVars
  \/ \E t \in Tasks : RepayAfterFind(t) /\ UNCHANGED mcpVars

InitRepay == InitMcp /\ InitLedger(MaxRepayOps)

SpecRepay == InitRepay /\ [][NextRepay]_vars

\* summaries among creations, accumulating debts and repays by id
NextSummary ==
  \/ \E t \in Tasks, startDate \in KnownIds : GetSummary(t, startDate) /\ UNCHANGED mcpVars
  \/ \E t \in Tasks, p \in ApiRawPayloads :
        CreateTransaction(t, p, FALSE) /\ UNCHANGED mcpVars
  \/ \E t \in Tasks, id \in KnownIds : RepayDebt(t, id) /\ UNCHANGED mcpVars
  \/ \E t \in Tasks, payload \in AccumPayloads :
        AccumulateDebt(t, payload) /\ UNCHANGED mcpVars
  \/ \E t \in Tasks : CreateAfterFind(t) /\ UNCHANGED mcpVars
  \/ \E t \in Tasks : RepayAfterFind(t) /\ UNCHANGED mcpVars

InitSummary == InitMcp /\ InitLedger(MaxSummaryOps)

SpecSummary == InitSummary /\ [][NextSummary]_vars

\* a list request of any explored query has been received
InitList ==
  /\ InitMcp
  /\ transactions = {}
  /\ nextId = 1
  /\ opsLeft = 0
  /\ credited = [d \in Debtors |-> 0]
  /\ \E query \in ListQueries :
       tasks = [t \in Tasks |-> IF t = "t1" THEN ReceivedList(query) ELSE IdleTask]

NextList ==
  \/ \E t \in Tasks : ListTransactions(t) /\ UNCHANGED mcpVars
  \/ \E t \in Tasks : RejectedListQuery(t) /\ UNCHANGED mcpVars

SpecList == InitList /\ [][NextList]_vars

\* the first and the last explored instant of a day
FirstInstant(d) == d * InstantsPerDay
LastInstant(d) == d * InstantsPerDay + InstantsPerDay - 1

\* the days of year 1, whose 1 February is a Sunday
YearOne == DaysPerYear..(2 * DaysPerYear - 1)
FirstOfFebruary == MakeDay(1, 1, 1)

\* a ledger with entries on both sides of a month boundary and of a week
\* boundary: the night from Saturday 31 January to Sunday 1 February, and the
\* night from that Sunday to Monday 2 February
CalendarLedger ==
  {[NoRow EXCEPT !.id = 1, !.type = "debts", !.debtor_name = "Budi", !.nominal = 1,
                 !.created_at = LastInstant(FirstOfFebruary - 1)],
   [NoRow EXCEPT !.id = 2, !.type = "spending", !.nominal = 2,
                 !.created_at = FirstInstant(FirstOfFebruary)],
   [NoRow EXCEPT !.id = 3, !.type = "earning", !.nominal = 4,
                 !.created_at = LastInstant(FirstOfFebruary)],
   [NoRow EXCEPT !.id = 4, !.type = "debts", !.debtor_name = "Siti", !.nominal = 8,
                 !.created_at = FirstInstant(FirstOfFebruary + 1)]}

\* a summary request of any time range has arrived at any explored instant of year 1
InitCalendar ==
  /\ InitMcp
  /\ transactions = CalendarLedger
  /\ nextId = 5
  /\ opsLeft = 0
  /\ credited = [d \in Debtors |-> 0]
  /\ \E timeRange \in TimeRanges, d \in YearOne, k \in 0..(InstantsPerDay - 1) :
       tasks = [t \in Tasks |-> IF t = "t1"
                                  THEN ReceivedSummary(timeRange, FirstInstant(d) + k)
                                  ELSE IdleTask]

NextCalendar ==
  \E t \in Tasks, elapsed \in 0..MaxElapsed :
     GetSummaryOfTimeRange(t, elapsed) /\ UNCHANGED mcpVars

SpecCalendar == InitCalendar /\ [][NextCalendar]_vars

\* a completion of any explored content has arrived for a prompt
InitParse ==
  /\ InitMcp
  /\ transactions = {}
  /\ nextId = 1
  /\ opsLeft = 0
  /\ credited = [d \in Debtors |-> 0]
  /\ \E userPrompt \in Prompts, content \in ProviderContents :
       tasks = [t \in Tasks |-> IF t = "t1" THEN ReceivedCompletion(userPrompt, content)
                                           ELSE IdleTask]

NextParse == \E t \in Tasks : ParseDebtPrompt(t) /\ UNCHANGED mcpVars

SpecParse == InitParse /\ [][NextParse]_vars

\* accumulating debt creations, overlapping in time at will
NextAccum ==
  \/ \E t \in Tasks, p \in AccumPayloads : AccumulateDebt(t, p) /\ UNCHANGED mcpVars
  \/ \E t \in Tasks : CreateAfterFind(t) /\ UNCHANGED mcpVars

InitAccum == InitMcp /\ InitLedger(MaxAccum)

SpecAccum == InitAccum /\ [][NextAccum]_vars

\* accumulating debt creations that do not overlap: one starts only when no
\* other is in progress
NextAccumSeq ==
  \/ \E t \in Tasks, p \in AccumPayloads :
        Quiet /\ AccumulateDebt(t, p) /\ UNCHANGED mcpVars
  \/ \E t \in Tasks : CreateAfterFind(t) /\ UNCHANGED mcpVars

SpecAccumSeq == InitAccum /\ [][NextAccumSeq]_vars

(***************************************************************************)
(* Properties of the protocol client                                       *)
(***************************************************************************)
StartedCalls == {c \in Calls : calls[c].pc # "idle"}
NoExplicitInitialize == \A c \in Calls : calls[c].method # "initialize"
NoInitFailure == \A p \in DOMAIN promises : promises[p].state # "rejected"
PastSession(c) == calls[c].pc \in {"sent", "done"}
    \/ (calls[c].pc = "failed" /\ calls[c].error # "none" /\ calls[c].session # NULL)

\* C1: when only non-initialize calls are made and no initialization fails,
\* exactly one initialize request is sent however many calls arrive before the
\* session exists, every call gets past session establishment (none fails
\* there), and every request a call sends carries the one cached token.
C1_SessionDedup ==
  (NoExplicitInitialize /\ NoInitFailure /\ StartedCalls # {}) =>
    /\ initRequestsSent = 1
    /\ \A c \in StartedCalls :
         /\ calls[c].pc = "failed" => calls[c].session # NULL
         /\ PastSession(c) =>
              /\ calls[c].session # NULL
              /\ calls[c].session = activeSessionId
    /\ \A c, d \in StartedCalls :
         (PastSession(c) /\ PastSession(d)) => calls[c].session = calls[d].session

\* C1 witness: every call arrived while the first initialize was pending
\* (all awaited promise 1) and every call succeeded.
C1_Witness ==
  /\ MaxCalls >= 2
  /\ NoExplicitInitialize
  /\ \A c \in Calls : calls[c].pc = "done" /\ calls[c].awaiting = 1
  /\ initRequestsSent = 1

\* C2 (as stated): at most one initialize request is in flight, whatever the
\* methods the callers pass.
C2_AtMostOneInitializeInFlight == InitializeInFlight <= 1

\* C2 (amended): at most one initialize request issued by session
\* establishment is in flight; with no caller passing 'initialize' it is the
\* only initialize request in flight.
C2_AtMostOneSessionInitInFlight ==
  /\ SessionInitInFlight <= 1
  /\ NoExplicitInitialize => InitializeInFlight <= 1
  /\ sessionInitPromise # NoPromise => PendingPromises = {sessionInitPromise}
  /\ sessionInitPromise = NoPromise => PendingPromises = {}

\* C2 witness: an earlier initialization failed, a retry is pending and a
\* second caller awaits the retry instead of issuing its own.
C2_Witness ==
  /\ Len(promises) = 2
  /\ promises[1].state = "rejected"
  /\ promises[2].state = "pending"
  /\ Cardinality({c \in Calls : calls[c].pc = "awaitSession" /\ calls[c].awaiting = 2}) >= 2

(***************************************************************************)
(* Properties of debt accumulation                                         *)
(***************************************************************************)
\* C3: after any number of accumulating debt creations for a debtor that do
\* not overlap, starting from no entry, the debtor has exactly one debt entry
\* and its amount is the sum of the amounts created.
C3_AccumulationLaw ==
  Quiet =>
    \A d \in Debtors :
      /\ credited[d] = 0 => FindDebtByDebtorName(d) = {}
      /\ credited[d] > 0 =>
           /\ Cardinality(FindDebtByDebtorName(d)) = 1
           /\ \A r \in FindDebtByDebtorName(d) : r.nominal = credited[d]

\* C3 witness: the same amount created twice for one debtor gives one entry of
\* twice the amount, and a single row was ever inserted.
C3_Witness ==
  /\ Quiet
  /\ opsLeft = MaxAccum - 2
  /\ credited["Budi"] = 4
  /\ credited["Siti"] = 0
  /\ \E r \in transactions : transactions = {r} /\ r.nominal = 4 /\ r.debtor_name = "Budi"

\* two finished accumulating creations that read the same amount of the same entry
SameRead(a, b) ==
  /\ a # b
  /\ tasks[a].pc = "done" /\ tasks[b].pc = "done"
  /\ tasks[a].op = "create" /\ tasks[b].op = "create"
  /\ tasks[a].found # NoRow /\ tasks[b].found # NoRow
  /\ tasks[a].found.id = tasks[b].found.id
  /\ tasks[a].found.nominal = tasks[b].found.nominal

\* C4: when two accumulating creations for a debtor have both read the same
\* existing amount E of the entry, the stored amount ends as E plus the amount
\* of only one of them: less than what was created in total (a lost update).
C4_LostUpdate ==
  \A a, b \in Tasks :
    SameRead(a, b) =>
      LET E == tasks[a].found.nominal
          stored == RowById(tasks[a].found.id).nominal
      IN /\ stored \in {E + tasks[a].payload.nominal, E + tasks[b].payload.nominal}
         /\ stored # E + tasks[a].payload.nominal + tasks[b].payload.nominal
         /\ stored < credited[tasks[a].payload.debtor_name]

\* C4 witness: an entry of amount 1 exists, two creations of 2 and 1 both read
\* it before either wrote, and the entry ends at 2 although 4 was created.
C4_Witness ==
  \E a, b \in Tasks :
    /\ SameRead(a, b)
    /\ tasks[a].found.nominal = 1
    /\ tasks[a].payload.nominal = 2
    /\ tasks[b].payload.nominal = 1
    /\ RowById(tasks[a].found.id).nominal = 2
    /\ credited[tasks[a].payload.debtor_name] = 4

(***************************************************************************)
(* Repay                                                                   *)
(***************************************************************************)
RepayOps == {"repay", "repayByName"}

\* the step in which repay request t issues its update
RepayWrites(t) ==
  /\ tasks[t].pc = "afterFind"
  /\ tasks[t].op \in RepayOps
  /\ tasks'[t].pc \in {"done", "failed"}

\* C5: when repay updates an entry it found as a debt with a debtor name and
\* that is still stored, that same entry becomes an earning, loses its debtor
\* name, gets the repayment message naming the former debtor as its note and
\* keeps its amount, id and creation time; every other entry is untouched and
\* the ledger has as many entries as before.
C5_RepayLaw ==
  [][\A t \in Tasks :
       (RepayWrites(t) /\ HasRow(tasks[t].found.id)) =>
         LET old == RowById(tasks[t].found.id) IN
         \E new \in transactions' :
           /\ tasks'[t].pc = "done"
           /\ tasks'[t].result = new
           /\ new.id = old.id
           /\ new.type = "earning"
           /\ new.debtor_name = NULL
           /\ new.note = "Pembayaran Hutang " \o tasks[t].found.debtor_name
           /\ new.nominal = old.nominal
           /\ new.created_at = old.created_at
           /\ transactions' \ {new} = transactions \ {old}
           /\ Cardinality(transactions') = Cardinality(transactions)]_vars

\* C5 witness: with two entries stored, a repay by id has finished on the debt
\* of Budi; the entry is now an earning of the same amount with the note
\* "Pembayaran Hutang Budi", and there are still two entries.
C5_Witness ==
  \E t \in Tasks :
    /\ Cardinality(transactions) = 2
    /\ tasks[t].op = "repay"
    /\ tasks[t].pc = "done"
    /\ tasks[t].found.type = "debts"
    /\ tasks[t].found.debtor_name = "Budi"
    /\ tasks[t].result \in transactions
    /\ tasks[t].result.type = "earning"
    /\ tasks[t].result.debtor_name = NULL
    /\ tasks[t].result.note = "Pembayaran Hutang Budi"
    /\ tasks[t].result.nominal = tasks[t].found.nominal
    /\ tasks[t].result.nominal > 0

\* the step in which repay request t starts and does its lookup
RepayLooksUp(t) ==
  /\ Free(t)
  /\ opsLeft' = opsLeft - 1
  /\ tasks'[t].started = opsLeft
  /\ tasks'[t].op \in RepayOps

\* C6: a repay whose lookup finds no entry fails as not found, one that finds
\* an entry that is not a debt fails as not a debt, one that finds a debt
\* without a debtor name fails for the missing name; in each case the request
\* ends there without an update and the ledger is as it was.
C6_RepayFailures ==
  [][\A t \in Tasks :
       RepayLooksUp(t) =>
         LET row == tasks'[t].found
             failure == IF row = NoRow THEN {"NotFound", "NoDebtFound"}
                        ELSE IF row.type # "debts" THEN {"NotADebt"}
                        ELSE IF row.debtor_name \in {NULL, UNDEF, ""} THEN {"NoDebtorName"}
                        ELSE {}
         IN /\ row # NoRow => row \in transactions
            /\ failure # {} =>
                 /\ tasks'[t].pc = "failed"
                 /\ tasks'[t].error \in failure
                 /\ tasks'[t].writes = 0
                 /\ transactions' = transactions
            /\ failure = {} => tasks'[t].pc = "afterFind"]_vars

\* C6 witness: a repay by id found a debt whose debtor name is empty and
\* failed for it, with no update issued and the entry still stored as it was.
C6_Witness ==
  \E t \in Tasks :
    /\ tasks[t].op = "repay"
    /\ tasks[t].pc = "failed"
    /\ tasks[t].error = "NoDebtorName"
    /\ tasks[t].found.type = "debts"
    /\ tasks[t].writes = 0
    /\ tasks[t].found \in transactions

(***************************************************************************)
(* Ledger invariants and validation                                        *)
(***************************************************************************)
\* C7: every stored entry has an amount greater than 0.
C7_AmountPositive == \A r \in transactions : r.nominal > 0

\* C8: every stored entry of kind debts has a non-empty debtor name.
C8_DebtHasDebtorName ==
  \A r \in transactions : r.type = "debts" => Truthy(r.debtor_name)

\* a request that went past its entry point
Executed(t) == tasks[t].pc # "idle" /\ tasks[t].op # "rejected"

\* C9: an agent request whose parsed intent has an empty debtor name executes
\* insert_spending or insert_earning, never a debt action.
C9_NoDebtActionWithoutName ==
  \A t \in Tasks :
    (Executed(t) /\ tasks[t].via = "agent" /\ tasks[t].intent.debtor_name = "") =>
      tasks[t].intent.action \in {"insert_spending", "insert_earning"}

\* C10: a create or update whose payload is invalid fails with a validation
\* error and has accessed the store neither for a lookup nor for a write.
C10_InvalidPayloadNoStoreAccess ==
  \A t \in Tasks :
    (tasks[t].op \in {"create", "update", "rejected"} /\ ~ValidPayload(tasks[t].payload)) =>
      /\ tasks[t].pc = "failed"
      /\ tasks[t].error = "ValidationError"
      /\ tasks[t].reads = 0
      /\ tasks[t].writes = 0

(***************************************************************************)
(* Summary                                                                 *)
(***************************************************************************)
\* the sum of the amounts of a set of entries
RECURSIVE SumOfNominal(_)
SumOfNominal(rows) ==
  IF rows = {} THEN 0
  ELSE LET r == CHOOSE q \in rows : TRUE IN r.nominal + SumOfNominal(rows \ {r})

\* the step in which summary request t is answered
SummaryAnswered(t) ==
  /\ Free(t)
  /\ opsLeft' = opsLeft - 1
  /\ tasks'[t].started = opsLeft
  /\ tasks'[t].op = "summary"

\* the stored entries of one kind created since a moment
EntriesSince(kind, since) ==
  {r \in transactions : r.type = kind /\ r.created_at >= since}

\* C11: a summary gives, for each of debts, spending and earning, the sum of
\* the amounts of the entries of that kind in its range, and 0 for a kind
\* with no entry in the range.
C11_SummaryLaw ==
  [][\A t \in Tasks :
       SummaryAnswered(t) =>
         LET since == tasks'[t].since
             summary == tasks'[t].summary
         IN /\ summary.total_debts = SumOfNominal(EntriesSince("debts", since))
            /\ summary.total_spending = SumOfNominal(EntriesSince("spending", since))
            /\ summary.total_earning = SumOfNominal(EntriesSince("earning", since))
            /\ EntriesSince("debts", since) = {} => summary.total_debts = 0
            /\ EntriesSince("spending", since) = {} => summary.total_spending = 0
            /\ EntriesSince("earning", since) = {} => summary.total_earning = 0
            /\ transactions' = transactions]_vars

\* C11 witness: a summary over the whole ledger answered 3 for debts, made of
\* more than one entry or of an accumulated one, and 0 for earning, which has
\* no entry.
C11_Witness ==
  \E t \in Tasks :
    /\ tasks[t].op = "summary"
    /\ tasks[t].pc = "done"
    /\ tasks[t].since = 1
    /\ tasks[t].summary.total_debts = 3
    /\ tasks[t].summary.total_earning = 0
    /\ Cardinality(transactions) = 2
    /\ \A r \in transactions : r.type = "debts"

(***************************************************************************)
(* Session lifecycle                                                       *)
(***************************************************************************)
\* the step in which the initialization attempt of promise p settles
Settles(p) ==
  /\ p \in DOMAIN promises
  /\ promises[p].state = "pending"
  /\ promises'[p].state # "pending"

\* C12 as stated: when the attempt held in the slot settles, the slot is
\* cleared if and only if the attempt failed.
C12_SlotClearedIffFailed ==
  [][\A p \in 1..MaxCalls :
       (Settles(p) /\ sessionInitPromise = p) =>
         (sessionInitPromise' = NoPromise <=> promises'[p].state = "rejected")]_vars

\* C12 amended: when the attempt held in the slot settles, the slot is cleared
\* whether the attempt failed or succeeded; after a success it is the cached
\* token that keeps later calls from initializing.
C12_SlotClearedWhenSettled ==
  [][\A p \in 1..MaxCalls :
       Settles(p) =>
         /\ sessionInitPromise = p
         /\ sessionInitPromise' = NoPromise
         /\ promises'[p].state = "fulfilled" =>
              (activeSessionId' = promises'[p].value /\ activeSessionId' # NULL)]_vars

\* C12 witness: an attempt succeeded, its token is cached and the slot is empty.
C12_Witness ==
  /\ \E p \in DOMAIN promises :
       promises[p].state = "fulfilled" /\ promises[p].value = activeSessionId
  /\ activeSessionId # NULL
  /\ sessionInitPromise = NoPromise

\* the last attempt failed and nothing has been tried since
AfterFailedAttempt ==
  /\ promises # <<>>
  /\ promises[Len(promises)].state = "rejected"

\* the step in which invocation c of a method other than initialize starts
StartsCall(c) ==
  /\ calls[c].pc = "idle"
  /\ calls'[c].pc # "idle"
  /\ calls'[c].method # "initialize"

\* C13: a failed attempt leaves no token cached; the next call of a method
\* other than initialize then sends exactly one new initialize request and
\* awaits it, and a call that awaited a successful attempt sends its request
\* with the token that attempt obtained.
C13_RetryAfterFailure ==
  [][/\ \A p \in 1..MaxCalls :
          (Settles(p) /\ promises'[p].state = "rejected") =>
            (activeSessionId' = NULL /\ sessionInitPromise' = NoPromise)
     /\ AfterFailedAttempt => activeSessionId = NULL
     /\ \A c \in Calls :
          (AfterFailedAttempt /\ StartsCall(c)) =>
            /\ initRequestsSent' = initRequestsSent + 1
            /\ Len(promises') = Len(promises) + 1
            /\ promises'[Len(promises')].state = "pending"
            /\ calls'[c].pc = "awaitSession"
            /\ calls'[c].awaiting = Len(promises')
     /\ \A c \in Calls :
          (calls[c].pc = "awaitSession" /\ calls'[c].pc = "sent") =>
            /\ promises[calls[c].awaiting].state = "fulfilled"
            /\ calls'[c].session = promises[calls[c].awaiting].value
            /\ calls'[c].session # NULL]_vars

\* C13 witness: the first attempt failed, a later call started the second
\* attempt, it succeeded, and that call sent its request with the new token.
C13_Witness ==
  /\ Len(promises) = 2
  /\ promises[1].state = "rejected"
  /\ promises[2].state = "fulfilled"
  /\ \E c \in Calls :
       /\ calls[c].awaiting = 2
       /\ calls[c].pc \in {"sent", "done"}
       /\ calls[c].session = promises[2].value
       /\ calls[c].session = activeSessionId

\* C14: once a token is cached it keeps its value, and no call of a method
\* other than initialize sends an initialize request any more.
C14_CachedSessionIsStable ==
  [][activeSessionId # NULL =>
       /\ activeSessionId' = activeSessionId
       /\ \A c \in Calls : StartsCall(c) => initRequestsSent' = initRequestsSent
       /\ Len(promises') = Len(promises)]_vars

\* C14 witness: with a token cached, a later call of another method has been
\* sent with it and failed, after one initialize request in all.
C14_Witness ==
  /\ activeSessionId # NULL
  /\ initRequestsSent = 1
  /\ \E c \in Calls :
       /\ calls[c].method = "tools/call"
       /\ calls[c].awaiting = NoPromise
       /\ calls[c].pc = "failed"
       /\ calls[c].session = activeSessionId

\* the step in which invocation c sends its own request
SendsRequest(c) == calls[c].pc # "sent" /\ calls'[c].pc = "sent"

\* C15 as stated: once a token is cached, every request sent carries it,
\* whatever its method.
C15_EveryRequestCarriesSession ==
  [][\A c \in Calls :
       (activeSessionId # NULL /\ SendsRequest(c)) =>
         calls'[c].session = activeSessionId]_vars

\* C15 amended: once a token is cached, every request of a method other than
\* initialize carries it; an initialize request a caller asks for is sent
\* without a session header.
C15_NonInitializeCarriesSession ==
  [][\A c \in Calls :
       (activeSessionId # NULL /\ SendsRequest(c)) =>
         IF calls'[c].method = "initialize"
           THEN calls'[c].session = NULL
           ELSE calls'[c].session = activeSessionId]_vars

\* C15 witness: with a token cached, a request that did not have to wait for
\* the session is in flight with the token, and an initialize request is in
\* flight without it.
C15_Witness ==
  /\ activeSessionId # NULL
  /\ \E c \in Calls :
       /\ calls[c].pc = "sent"
       /\ calls[c].method = "tools/call"
       /\ calls[c].awaiting = NoPromise
       /\ calls[c].session = activeSessionId
  /\ \E c \in Calls :
       /\ calls[c].pc = "sent"
       /\ calls[c].method = "initialize"
       /\ calls[c].session = NULL

\* invocations that awaited a failed attempt
AwaitedFailure == {c \in Calls : /\ calls[c].awaiting # NoPromise
                                 /\ promises[calls[c].awaiting].state = "rejected"}

\* C16: every caller that awaited an attempt that failed fails with the
\* failure of that attempt, sends no request of its own and starts no
\* initialize request of its own.
C16_AwaitersShareFailure ==
  [][/\ \A c \in AwaitedFailure :
          /\ calls[c].pc \in {"awaitSession", "failed"}
          /\ calls[c].pc = "failed" => calls[c].error = promises[calls[c].awaiting].error
     /\ \A c \in AwaitedFailure :
          calls'[c] # calls[c] =>
            /\ calls'[c].pc = "failed"
            /\ calls'[c].error = promises[calls[c].awaiting].error
            /\ initRequestsSent' = initRequestsSent
            /\ promises' = promises]_vars

\* C16 witness: two callers awaited the same attempt, it failed, and both
\* have failed with its failure after a single initialize request.
C16_Witness ==
  \E a, b \in Calls :
    /\ a # b
    /\ a \in AwaitedFailure /\ b \in AwaitedFailure
    /\ calls[a].awaiting = calls[b].awaiting
    /\ calls[a].pc = "failed" /\ calls[b].pc = "failed"
    /\ calls[a].error = calls[b].error
    /\ calls[a].error = promises[calls[a].awaiting].error
    /\ initRequestsSent = 1

(***************************************************************************)
(* Agent orchestrator: dispatch                                            *)
(***************************************************************************)
FromAgent == {t \in Tasks : tasks[t].via = "agent" /\ tasks[t].pc # "idle"}

\* the ledger operation the dispatch table assigns to an intent was invoked
Dispatched(task) ==
  LET intent == task.intent IN
  CASE intent.action = "upsert_debt" ->
         /\ task.op = "create"
         /\ task.upsert
         /\ task.payload.type = "debts"
         /\ task.payload.debtor_name = intent.debtor_name
         /\ task.payload.nominal = intent.nominal
         /\ task.payload.note = intent.original_prompt
    [] intent.action = "get_debt" ->
         /\ task.op = "getDebt"
         /\ task.reads = 1
         /\ task.writes = 0
         /\ task.pc = "done"
    [] intent.action = "repay_debt" -> task.op = "repayByName"
    [] intent.action = "insert_spending" ->
         /\ task.op = "create"
         /\ ~task.upsert
         /\ task.payload.type = "spending"
         /\ task.payload.nominal = intent.nominal
         /\ task.payload.note = intent.original_prompt
         /\ task.reads = 0
    [] intent.action = "insert_earning" ->
         /\ task.op = "create"
         /\ ~task.upsert
         /\ task.payload.type = "earning"
         /\ task.payload.nominal = intent.nominal
         /\ task.payload.note = intent.original_prompt
         /\ task.reads = 0
    [] OTHER ->
         /\ task.op = "none"
         /\ task.pc = "failed"
         /\ task.error = "UnknownAction"
         /\ task.reads = 0
         /\ task.writes = 0

\* C17: for a parsed intent with one of the five actions the agent invokes the
\* one ledger operation its dispatch table assigns to the action (upsert_debt:
\* accumulating create of a debt with the intent's debtor and amount; get_debt:
\* the lookup alone; repay_debt: repay by debtor name; insert_spending and
\* insert_earning: plain create with the prompt as note) and, when it
\* succeeds, returns a result naming the intent's action; for any other
\* action it fails as unknown action without a ledger operation.
C17_DispatchTable ==
  \A t \in FromAgent :
    /\ Dispatched(tasks[t])
    /\ tasks[t].pc = "done" => ActionResult(tasks[t]) = tasks[t].intent.action

\* C17 witness: an accumulating create issued for upsert_debt has stored the
\* debt of Budi with the prompt as its note, and an intent with an action
\* outside the five has failed as unknown action.
C17_Witness ==
  \E a, b \in FromAgent :
    /\ tasks[a].intent.action = "upsert_debt"
    /\ tasks[a].pc = "done"
    /\ tasks[a].reads = 1 /\ tasks[a].writes = 1
    /\ tasks[a].result \in transactions
    /\ tasks[a].result.debtor_name = "Budi"
    /\ tasks[a].result.note = "prompt"
    /\ tasks[b].intent.action = "transfer"
    /\ tasks[b].error = "UnknownAction"

\* failed repays the agent issued
AgentRepayFailed ==
  {t \in FromAgent : tasks[t].intent.action = "repay_debt" /\ tasks[t].pc = "failed"}

\* C18: when the repay the agent issued fails because no debt was found, the
\* agent fails with a 404 error carrying the localized message for that
\* debtor; any other failure of the repay is passed on as it is.
C18_RepayErrorMapping ==
  \A t \in AgentRepayFailed :
    IF tasks[t].error = "NoDebtFound"
      THEN tasks[t].thrown =
             "AppError 404: Tidak ada hutang yang tercatat untuk "
               \o tasks[t].intent.debtor_name
      ELSE tasks[t].thrown = tasks[t].error

\* C18 witness: a repay the agent issued for Budi failed because no debt was
\* found, and the agent failed with the 404 for Budi.
C18_Witness ==
  \E t \in AgentRepayFailed :
    /\ tasks[t].intent.debtor_name = "Budi"
    /\ tasks[t].error = "NoDebtFound"
    /\ tasks[t].reads = 1 /\ tasks[t].writes = 0
    /\ tasks[t].thrown = "AppError 404: Tidak ada hutang yang tercatat untuk Budi"

(***************************************************************************)
(* List                                                                    *)
(***************************************************************************)
\* list requests whose filters reached the store
Listed == {t \in Tasks : tasks[t].op = "list" /\ tasks[t].reads > 0}

\* C19: the filters of every list request that reaches the store have a page
\* of at least 1 and a perPage from 1 to 100; per_page 0 gives 1, per_page 500
\* gives 100 and page 0 gives 1.
C19_PaginationClamp ==
  \A t \in Listed :
    LET query == tasks[t].query
        filters == tasks[t].filters
    IN /\ ~filters.page.nan /\ filters.page.n >= 1
       /\ ~filters.perPage.nan /\ filters.perPage.n >= 1 /\ filters.perPage.n <= 100
       /\ query.per_page = RawNumber("digits", 0) => filters.perPage = Number(1)
       /\ query.per_page = RawNumber("digits", 500) => filters.perPage = Number(100)
       /\ query.page = RawNumber("digits", 0) => filters.page = Number(1)

\* the type parameter of a query has a member that is not a transaction type
HasMemberOutsideEnum(query) ==
  /\ query.type.present
  /\ \E i \in DOMAIN query.type.members : query.type.members[i] \notin TRANSACTION_TYPES

\* the type parameter of a query has a member that, trimmed and lower-cased,
\* is neither empty nor a transaction type
HasInvalidMember(query) ==
  /\ query.type.present
  /\ \E i \in DOMAIN query.type.members :
       TrimLower(query.type.members[i]) \notin (TRANSACTION_TYPES \cup {""})

ListRequests == {t \in Tasks : tasks[t].op = "list" /\ tasks[t].pc # "received"}

\* C20 as stated: a list request whose type filter has a member that is not
\* in the enum is rejected with a validation error and makes no store access.
C20_MemberOutsideEnumRejected ==
  \A t \in ListRequests :
    HasMemberOutsideEnum(tasks[t].query) =>
      /\ tasks[t].pc = "failed"
      /\ tasks[t].error = "ValidationError"
      /\ tasks[t].reads = 0

\* C20 amended: a list request whose type filter has a member that, once
\* trimmed and lower-cased, is neither empty nor in the enum is rejected as a
\* whole with a validation error and makes no store access; any other list
\* request reaches the store, with its members trimmed and lower-cased and the
\* empty ones dropped.
C20_InvalidMemberRejected ==
  \A t \in ListRequests :
    IF HasInvalidMember(tasks[t].query)
      THEN /\ tasks[t].pc = "failed"
           /\ tasks[t].error = "ValidationError"
           /\ tasks[t].reads = 0
           /\ tasks[t].filters = NoFilters
      ELSE /\ tasks[t].pc = "done"
           /\ tasks[t].reads = 1
           /\ \A i \in DOMAIN tasks[t].filters.types :
                tasks[t].filters.types[i] \in TRANSACTION_TYPES

\* C20 witness: the request for 'spending,loan' has been rejected without a
\* store access.
C20_Witness ==
  \E t \in ListRequests :
    /\ tasks[t].query.type.members = <<"spending", "loan">>
    /\ tasks[t].pc = "failed"
    /\ tasks[t].error = "ValidationError"
    /\ tasks[t].reads = 0

\* ---- C21 ----
\* what the caller can tell from the AppError of a failed request: its message
ReportedKind(err) ==
  IF AppErrorMessage(err) = "MCP error (" THEN "protocol"
  ELSE IF AppErrorMessage(err) \in {"MCP request failed with status",
                                    "MCP response was empty or invalid JSON",
                                    "MCP response missing result payload"}
    THEN "transport"
  ELSE "other"

\* the kind of failure the answer r is: a non-2xx status or a 2xx body with
\* neither result nor error is a transport failure, a 2xx body with an error
\* field a protocol failure
KindOfAnswer(r) ==
  IF r.status = "non2xx" THEN "transport"
  ELSE IF r.status = "ok" /\ r.body = "neither" THEN "transport"
  ELSE IF r.status = "ok" /\ r.body \in {"error", "both"} THEN "protocol"
  ELSE "other"

\* the request of call c was answered in this step
Answered(c) == calls[c].pc = "sent" /\ calls'[c].pc \in {"done", "failed"}
\* the initialize request of promise p was answered in this step
InitAnswered(p) ==
  p \in DOMAIN promises /\ promises[p].state = "pending" /\ promises'[p].state # "pending"

\* C21: a non-2xx answer and a 2xx answer with neither result nor error make the
\* request fail with a transport failure, an answer with an error field makes it
\* fail with a protocol failure, and the caller can tell the two kinds apart
C21_TransportVsProtocol ==
  [][/\ \A c \in Calls :
          Answered(c) /\ KindOfAnswer(lastResponse') # "other" =>
            /\ calls'[c].pc = "failed"
            /\ ReportedKind(calls'[c].error) = KindOfAnswer(lastResponse')
     /\ \A p \in DOMAIN promises :
          InitAnswered(p) /\ KindOfAnswer(lastResponse') # "other" =>
            /\ promises'[p].state = "rejected"
            /\ ReportedKind(promises'[p].error) = KindOfAnswer(lastResponse')]_vars

\* one request failed on a JSON-RPC error after an initialization had failed on
\* a body with neither result nor error
C21_Witness ==
  /\ lastResponse.body = "error" /\ lastResponse.status = "ok"
  /\ \E c \in Calls : calls[c].pc = "failed" /\ calls[c].error = "rpcError"
  /\ \E p \in DOMAIN promises : promises[p].error = "missingResult"

\* ---- C25 ----
\* the places of an initialize answer a token can sit in, in the order of the claim
TokenPlaces(r) == <<r.header, r.sessionObj, r.sessionId, r.id>>
\* the first place that holds a token, 0 when none does
FirstPlace(r) ==
  IF \A i \in 1..4 : TokenPlaces(r)[i] = NULL THEN 0
  ELSE CHOOSE i \in 1..4 :
         /\ TokenPlaces(r)[i] # NULL
         /\ \A j \in 1..(i - 1) : TokenPlaces(r)[j] = NULL

\* C25: an initialization whose answer carries a result takes the token from
\* the session header when present, otherwise from result.session.id, then
\* result.sessionId, then result.id, and caches it; when none is present it
\* fails with the missing-session error and no token is cached
C25_TokenPrecedence ==
  [][\A p \in DOMAIN promises :
       InitAnswered(p) /\ lastResponse'.status = "ok" /\ lastResponse'.body = "result" =>
         IF FirstPlace(lastResponse') = 0
           THEN /\ promises'[p].state = "rejected"
                /\ promises'[p].error = "missingSession"
                /\ activeSessionId' = NULL
           ELSE /\ promises'[p].state = "fulfilled"
                /\ promises'[p].value = TokenPlaces(lastResponse')[FirstPlace(lastResponse')]
                /\ activeSessionId' = promises'[p].value]_vars

\* a first initialization found no token anywhere; the next one took the token
\* of result.sessionId although result.id held another
C25_Witness ==
  /\ \E p \in DOMAIN promises : promises[p].error = "missingSession"
  /\ lastResponse.status = "ok" /\ lastResponse.body = "result"
  /\ lastResponse.header = NULL /\ lastResponse.sessionObj = NULL
  /\ lastResponse.sessionId = "s1" /\ lastResponse.id = "s2"
  /\ activeSessionId = "s1"

\* ---- C22 ----
\* C22: every call of the protocol client terminates: a call that has started
\* eventually returns or fails, also when the remote endpoint never answers,
\* so the callers awaiting a pending initialization are eventually released
C22_EveryCallTerminates ==
  \A c \in Calls : (calls[c].pc \in {"sent", "awaitSession"}) ~> (calls[c].pc \in {"done", "failed"})

\* ---- C23 ----
\* C23: for every prompt and every content the provider returns, the intent
\* parseDebtPrompt returns has the prompt itself, character for character, as
\* its original_prompt
C23_OriginalPromptKept ==
  \A t \in Tasks :
    tasks[t].op = "parse" /\ tasks[t].pc = "done" =>
      tasks[t].intent.original_prompt = tasks[t].prompt

\* an intent was returned for a prompt with surrounding blanks although the
\* provider had written the prompt differently
C23_Witness ==
  \E t \in Tasks :
    /\ tasks[t].op = "parse" /\ tasks[t].pc = "done"
    /\ tasks[t].prompt = " Budi hutang 1 "
    /\ tasks[t].content.json.original_prompt = "Budi hutang 1"
    /\ tasks[t].intent.action = "upsert_debt"

\* ---- C24 ----
\* request t, an accumulating creation that found a debt, writes in this step
AccumulatesInto(t) ==
  /\ tasks[t].pc = "afterFind" /\ tasks[t].op = "create"
  /\ tasks[t].found # NoRow
  /\ tasks'[t].pc = "done"

\* C24: when an accumulating creation finds an existing debt it issues one
\* update of the entry with that id: the amount becomes the amount found plus
\* the new amount, note and attachment become those of the new payload, id and
\* creation time stay as they were, and no entry is inserted
C24_AccumulationFrame ==
  [][\A t \in Tasks :
       AccumulatesInto(t) =>
         LET old == RowById(tasks[t].found.id)
             new == tasks'[t].result
             payload == tasks[t].payload
         IN /\ tasks'[t].writes = tasks[t].writes + 1
            /\ new \in transactions'
            /\ new.id = tasks[t].found.id
            /\ new.nominal = tasks[t].found.nominal + payload.nominal
            /\ payload.note # UNDEF => new.note = payload.note
            /\ payload.invoice_url # UNDEF => new.invoice_url = payload.invoice_url
            /\ new.created_at = old.created_at
            /\ new.type = old.type /\ new.debtor_name = old.debtor_name
            /\ transactions' \ {new} = transactions \ {old}
            /\ Cardinality(transactions') = Cardinality(transactions)
            /\ nextId' = nextId]_vars

\* an accumulating creation with a note and an attachment updated a debt that
\* had neither
C24_Witness ==
  \E t \in Tasks :
    /\ tasks[t].op = "create" /\ tasks[t].pc = "done" /\ tasks[t].found # NoRow
    /\ tasks[t].found.note = NULL /\ tasks[t].found.invoice_url = NULL
    /\ tasks[t].result.note = "n1" /\ tasks[t].result.invoice_url = "u1"
    /\ tasks[t].result.nominal = 3
    /\ tasks[t].result.id = tasks[t].found.id
    /\ tasks[t].result \in transactions

\* ---- C26 ----
\* the first instant of any day
IsMidnight(i) == i % InstantsPerDay = 0

\* the start of the bucket instant i lies in: 00:00 of its day, of the Monday
\* of its week, of the first day of its month
BucketStart(timeRange, i) ==
  CASE timeRange = "day" -> i - (i % InstantsPerDay)
    [] timeRange = "week" ->
         CHOOSE s \in (i - 7 * InstantsPerDay)..i :
           IsMidnight(s) /\ GetDay(DayOfInstant(s)) = 1 /\ i - s < 7 * InstantsPerDay
    [] timeRange = "month" ->
         CHOOSE s \in (i - 31 * InstantsPerDay)..i :
           /\ IsMidnight(s) /\ GetDate(DayOfInstant(s)) = 1
           /\ GetMonth(DayOfInstant(s)) = GetMonth(DayOfInstant(i))

\* the first bucket boundary after instant i: 00:00 of the next day, of the
\* next Monday, of the first day of the next month
BucketEnd(timeRange, i) ==
  CASE timeRange = "day" ->
         CHOOSE e \in (i + 1)..(i + InstantsPerDay) : IsMidnight(e)
    [] timeRange = "week" ->
         CHOOSE e \in (i + 1)..(i + 7 * InstantsPerDay) :
           IsMidnight(e) /\ GetDay(DayOfInstant(e)) = 1
    [] timeRange = "month" ->
         CHOOSE e \in (i + 1)..(i + 31 * InstantsPerDay) :
           /\ IsMidnight(e) /\ GetDate(DayOfInstant(e)) = 1
           /\ \A f \in (i + 1)..(e - 1) : ~(IsMidnight(f) /\ GetDate(DayOfInstant(f)) = 1)

\* the stored entries of one kind created from start on and before end
EntriesWithin(kind, start, end) ==
  {r \in transactions : r.type = kind /\ start <= r.created_at /\ r.created_at < end}

\* summary request t for a time range has been answered
TimeRangeSummarized(t) ==
  tasks[t].op = "summary" /\ tasks[t].pc = "done" /\ tasks[t].timeRange # "none"

\* C26: when start and end are computed at the same instant, a summary of the
\* day, the week or the month counts exactly the entries with
\* start <= created_at < end, start being 00:00 of the current day, of the
\* Monday of the current week, of the first day of the current month, and end
\* 00:00 of the next day, the next Monday, the first day of the next month; on
\* every day of the week, Sunday included
C26_BucketOfSummary ==
  \A t \in Tasks :
    TimeRangeSummarized(t) /\ tasks[t].later = tasks[t].now =>
      LET start == BucketStart(tasks[t].timeRange, tasks[t].now)
          end == BucketEnd(tasks[t].timeRange, tasks[t].now)
          summary == tasks[t].summary
      IN /\ TimestampOf(tasks[t].startDate) = start
         /\ TimestampOf(tasks[t].endDate) = end
         /\ summary.total_debts = SumOfNominal(EntriesWithin("debts", start, end))
         /\ summary.total_spending = SumOfNominal(EntriesWithin("spending", start, end))
         /\ summary.total_earning = SumOfNominal(EntriesWithin("earning", start, end))

\* a summary of the week asked on Sunday 1 February counted the spending and
\* the earning of that Sunday and the debt of the Saturday before, and not the
\* debt of the Monday after
C26_Witness ==
  \E t \in Tasks :
    /\ TimeRangeSummarized(t) /\ tasks[t].later = tasks[t].now
    /\ tasks[t].timeRange = "week"
    /\ GetDay(DayOfInstant(tasks[t].now)) = 0
    /\ tasks[t].summary = [total_debts |-> 1, total_spending |-> 2, total_earning |-> 4]

\* ---- C29 ----
\* C29: the range a summary queries spans exactly one bucket, its end being
\* the first bucket boundary after its start, also when the clock passes a
\* day, week or month boundary between the two readings of the current time
C29_RangeIsOneBucket ==
  \A t \in Tasks :
    TimeRangeSummarized(t) =>
      TimestampOf(tasks[t].endDate)
        = BucketEnd(tasks[t].timeRange, TimestampOf(tasks[t].startDate))

\* ---- C28 ----
\* C28: after any interleaving of accumulating debt creations, overlapping
\* ones for a debtor without a debt included, the ledger holds at most one
\* debt entry for each debtor name
C28_OneDebtPerDebtor ==
  \A name \in Debtors : Cardinality(FindDebtByDebtorName(name)) <= 1

\* ---- C27 ----
\* the entries that were a debt of `name` and have been repaid
RepaidEntries(name) ==
  {r \in transactions : r.type = "earning" /\ r.note = "Pembayaran Hutang " \o name}

\* what findDebtByDebtorName(name) matches after this step
DebtsAfterStep(name) ==
  {r \in transactions' : r.type = "debts" /\ r.debtor_name = name}

\* repay request t turns the debt it found into an earning in this step
RepaySucceeds(t) == RepayWrites(t) /\ tasks'[t].pc = "done"

\* an accumulating creation for a debtor with a repaid entry starts in slot t:
\* this step is its lookup
CreatesAfterRepay(t) ==
  /\ Free(t) /\ opsLeft' = opsLeft - 1 /\ tasks'[t].started = opsLeft
  /\ tasks'[t].op = "create" /\ tasks'[t].upsert /\ tasks'[t].pc = "afterFind"
  /\ RepaidEntries(tasks'[t].payload.debtor_name) # {}

\* an accumulating creation whose lookup found nothing writes in this step
InsertsAfterRepay(t) ==
  /\ tasks[t].pc = "afterFind" /\ tasks[t].op = "create" /\ tasks[t].found = NoRow
  /\ RepaidEntries(tasks[t].payload.debtor_name) # {}
  /\ tasks'[t].pc = "done"

\* the write of such a creation inserts a debt of the new amount only and
\* leaves every stored entry, the repaid one included, as it was
InsertsNewDebt(t) ==
  LET new == tasks'[t].result IN
  /\ new \notin transactions
  /\ transactions' = transactions \cup {new}
  /\ new.type = "debts"
  /\ new.debtor_name = tasks[t].payload.debtor_name
  /\ new.nominal = tasks[t].payload.nominal
  /\ \A r \in transactions : r.id # new.id

\* C27 as stated: after a debtor's debt has been repaid the lookup by the
\* debtor's name returns nothing, a following accumulating creation for the
\* debtor finds nothing and inserts a new debt of the new amount only, and the
\* repaid entry is not modified
C27_RepaidThenFresh ==
  [][\A t \in Tasks :
       /\ RepaySucceeds(t) => DebtsAfterStep(tasks[t].found.debtor_name) = {}
       /\ CreatesAfterRepay(t) => tasks'[t].found = NoRow
       /\ InsertsAfterRepay(t) => InsertsNewDebt(t)]_vars

\* C27, amended: after the only debt entry of a debtor has been repaid the
\* lookup by the debtor's name returns nothing; while the debtor has no other
\* debt entry a following accumulating creation finds nothing, inserts a new
\* debt of the new amount only, and leaves the repaid entry as it was
C27_OnlyDebtRepaidThenFresh ==
  [][\A t \in Tasks :
       /\ (RepaySucceeds(t)
             /\ FindDebtByDebtorName(tasks[t].found.debtor_name) \subseteq
                  {RowById(tasks[t].found.id)})
            => DebtsAfterStep(tasks[t].found.debtor_name) = {}
       /\ (CreatesAfterRepay(t)
             /\ FindDebtByDebtorName(tasks'[t].payload.debtor_name) = {})
            => tasks'[t].found = NoRow
       /\ InsertsAfterRepay(t) => InsertsNewDebt(t)]_vars

\* the debt of Budi was repaid and a later accumulating creation for Budi
\* inserted a new debt of amount 2 beside the repaid entry of amount 1
C27_Witness ==
  \E t \in Tasks, repaid \in RepaidEntries("Budi") :
    /\ tasks[t].op = "create" /\ tasks[t].upsert /\ tasks[t].pc = "done"
    /\ tasks[t].found = NoRow
    /\ tasks[t].payload.debtor_name = "Budi"
    /\ tasks[t].result \in transactions
    /\ tasks[t].result.nominal = 2 /\ tasks[t].result.id > repaid.id
    /\ repaid.nominal = 1 /\ repaid.debtor_name = NULL
    /\ FindDebtByDebtorName("Budi") = {tasks[t].result}

\* ---- C30 ----
\* the summary getSummary computes from the rows created from start on and before end
SummaryOf(rows, start, end) ==
  Summarize(NoSummary,
            RowsAsArray({r \in rows : start <= r.created_at /\ r.created_at < end}))

TotalOf(summary) == summary.total_debts + summary.total_spending + summary.total_earning

\* C30: when a debt entry created within the summarized range is repaid, the
\* summary of that range has its debts total decreased by the entry's amount,
\* its earning total increased by the same amount, and its spending total
\* and the sum of its three totals unchanged
C30_RepayMovesDebtToEarning ==
  [][\A t \in Tasks :
       (RepaySucceeds(t) /\ RowById(tasks[t].found.id).type = "debts") =>
         LET old == RowById(tasks[t].found.id) IN
         \A start \in 1..old.created_at :
           LET before == SummaryOf(transactions, start, nextId + 1)
               after == SummaryOf(transactions', start, nextId + 1)
           IN /\ after.total_debts = before.total_debts - old.nominal
              /\ after.total_earning = before.total_earning + old.nominal
              /\ after.total_spending = before.total_spending
              /\ TotalOf(after) = TotalOf(before)]_vars

\* a debt of amount 2 has been repaid in a ledger that also holds a spending:
\* the summary of the whole ledger now shows no debt, the spending, and an
\* earning of 2
C30_Witness ==
  \E t \in Tasks :
    /\ tasks[t].op = "repay" /\ tasks[t].pc = "done"
    /\ tasks[t].found.type = "debts" /\ tasks[t].found.nominal = 2
    /\ tasks[t].result \in transactions
    /\ SummaryOf(transactions, 1, nextId + 1)
         = [total_debts |-> 0, total_spending |-> 1, total_earning |-> 2]

====
